---- MODULE Spec2Model ----
(***************************************************************************)
(* A model of the tracee control core of rd (aebm/rd): the Task            *)
(* resume/wait protocol (resume_execution, did_waitpid), the orderly       *)
(* session shutdown (kill_all_tasks), remote-memory I/O                    *)
(* (read_bytes_fallible, write_bytes_helper, safe_pwrite64) and the        *)
(* trap-reason classifier (compute_trap_reasons).                          *)
(*                                                                         *)
(* The kernel and the tracee are the environment: they are modelled by     *)
(* the k-prefixed state and by nondeterministic choices inside actions.    *)
(* Each concern has its own specification over the same variables:         *)
(*   Spec      one task driven through resume_execution / did_waitpid      *)
(*   SpecKill  a session of NumTasks tasks shut down by kill_all_tasks     *)
(*             (SpecKillLive: the same under fair scheduling)              *)
(*   SpecMem   reads and writes of tracee memory                           *)
(*   SpecTrap  compute_trap_reasons applied to every bounded input         *)
(*   SpecStep  one task singlestepped through the CPU workarounds          *)
(*   SpecExec  post_exec_for_exe on a task of a session                    *)
(*   SpecCStr  read_c_str over paged tracee memory                         *)
(*   SpecDrop  task_drop_common on the tasks of a thread group             *)
(*   SpecClone clone_task_common, post_exec_for_exe and task destruction   *)
(*             over the task sets of the shared objects                    *)
(*             (SpecCloneBuffers: one clone over a drawn population)       *)
(*   SpecRefl  process_ptrace reflecting a ptracer's requests              *)
(*   SpecIntr  the PTRACE_INTERRUPT accounting of did_waitpid              *)
(***************************************************************************)
EXTENDS Integers, Sequences, FiniteSets, TLC

VARIABLES
    tasks,      \* tid -> Task (the fields of TaskInner the operations touch)
    kern,       \* tid -> the kernel's view of the tracee thread
    sess,       \* the Session: task_map, vm_map, thread_group_map, is_recording
    aborted,    \* TRUE once an ed_assert!/fatal! has ended the tracer process
    last_op,    \* the operation that produced this state, and its task
    hist,       \* tid -> history of the calls made on the task
    kill,       \* the position and the record of a running kill_all_tasks
    mem,        \* the tracee memory and the state of a memory operation
    trap,       \* the inputs and the result of a trap-reason classification
    step,       \* one task's registers and fixup state across resume and stop
    exec,       \* the tasks, address spaces and fd tables around a post_exec
    cstr,       \* the tracee pages and the result of a read_c_str
    drop,       \* a thread group and the record of a task's destruction
    clone,      \* tasks, the objects they share, and the record of a clone
    refl,       \* a ptracer, its subordinate tracee and a reflected request
    intr        \* one task's PTRACE_INTERRUPT accounting across its stops

vars == <<tasks, kern, sess, aborted, last_op, hist, kill, mem, trap,
          step, exec, cstr, drop, clone, refl, intr>>

\* What the task protocol, the shutdown, the memory operations and the
\* classifier leave alone, respectively.
notProto ==
    <<kill, mem, trap, step, exec, cstr, drop, clone, refl, intr>>
notKill ==
    <<hist, mem, trap, step, exec, cstr, drop, clone, refl, intr>>
notMem ==
    <<hist, kill, trap, step, exec, cstr, drop, clone, refl, intr>>
notTrap ==
    <<tasks, kern, sess, hist, kill, mem, step, exec, cstr, drop, clone,
      refl, intr>>
notStep ==
    <<tasks, kern, sess, hist, kill, mem, trap, exec, cstr, drop, clone,
      refl, intr>>
notExec ==
    <<tasks, kern, sess, hist, kill, mem, trap, step, cstr, drop, clone,
      refl, intr>>
notCStr ==
    <<tasks, kern, sess, hist, kill, mem, trap, step, exec, drop, clone,
      refl, intr>>
notDrop ==
    <<tasks, kern, sess, hist, kill, mem, trap, step, exec, cstr, clone,
      refl, intr>>
notClone ==
    <<tasks, kern, sess, hist, kill, mem, trap, step, exec, cstr, drop,
      refl, intr>>
notRefl ==
    <<tasks, kern, sess, hist, kill, mem, trap, step, exec, cstr, drop,
      clone, intr>>
notIntr ==
    <<tasks, kern, sess, hist, kill, mem, trap, step, exec, cstr, drop,
      clone, refl>>

\* ------------------------------------------------------------------ bounds

\* Number of tasks in the session that kill_all_tasks shuts down.
NumTasks == 2

Tids == 1 .. NumTasks

\* ------------------------------------------------------- registers and CS

\* The two user code segments of the Linux GDT: 0x23 (32-bit) and 0x33 (64-bit).
Selectors == {35, 51}

\* AR_L: the long-mode bit of the access-rights word LAR returns.
AR_L == 2097152

\* The access rights the LAR instruction returns for a selector of the Linux
\* GDT: 0x00affb00 for the 64-bit code segment, 0x00cffb00 for the 32-bit one.
lar(segment) ==
    IF segment = 51 THEN 11533056 ELSE 13630208

is_long_mode_segment(segment) ==
    (lar(segment) \div AR_L) % 2 = 1

\* did_waitpid: the architecture the CS selector stands for.
arch_of_cs(cs) ==
    IF is_long_mode_segment(cs) THEN "X64" ELSE "X86"

\* Registers::set_from_ptrace: every register value comes from the kernel's
\* user_regs_struct; the architecture of the Registers object is kept.
set_from_ptrace(registers, kregs) ==
    [registers EXCEPT !.ip = kregs.ip, !.cs = kregs.cs, !.tf = kregs.tf,
                      !.syscallno = kregs.syscallno, !.arg1 = kregs.arg1]

\* Registers::new(a): a zeroed register file of architecture a.
new_registers(a) ==
    [ip |-> "null", cs |-> 0, arch |-> a, tf |-> FALSE,
     syscallno |-> "none", arg1 |-> 0]

\* What PTRACE_SETREGS hands to the kernel.
to_ptrace(registers) ==
    [ip |-> registers.ip, cs |-> registers.cs, tf |-> registers.tf,
     syscallno |-> registers.syscallno, arg1 |-> registers.arg1]

\* -------------------------------------------------------------- wait status

\* WaitStatus kinds: a signal-delivery stop, a group stop, a syscall stop, a
\* ptrace event other than exit, and PTRACE_EVENT_EXIT.
StopStatuses == {"stop_sig", "group_stop", "syscall_stop", "ptrace_event"}
Statuses == StopStatuses \cup {"exit_event"}

\* ------------------------------------------------------------- task records

\* A task right after construction and its first wait: stopped, registers in
\* step with the kernel, the architecture that of its code segment.
InitTask(cs, stopped, unstable, tg, vm) ==
    [is_stopped |-> stopped,
     registers_dirty |-> FALSE,
     registers |-> [ip |-> "user", cs |-> cs, arch |-> arch_of_cs(cs),
                    tf |-> FALSE, syscallno |-> "other", arg1 |-> 1],
     wait_status |-> "stop_sig",
     extra_registers |-> "None",
     detected_unexpected_exit |-> FALSE,
     seen_ptrace_exit_event |-> FALSE,
     unstable |-> unstable,
     tg |-> tg,
     vm |-> vm]

InitKern(cs, stopped) ==
    [run |-> IF stopped THEN "stopped" ELSE "running",
     event |-> "none",
     regs |-> [ip |-> "user", cs |-> cs, tf |-> FALSE,
               syscallno |-> "other", arg1 |-> 1],
     stepping |-> FALSE,
     attached |-> TRUE]

\* The history of the calls made on a task: resume_execution calls since the
\* last did_waitpid, did_waitpid calls since the last resume_execution (both
\* counted up to HistCap), the number of did_waitpid calls that lay between
\* the last two resumes (-1 before the second resume), the same two counts
\* for the did_waitpid calls that found the task not yet marked stopped, and
\* what the last did_waitpid found.
InitHist ==
    [resumed |-> FALSE,
     resumes_since_wait |-> 0,
     waits_since_resume |-> 0,
     fresh_waits_since_resume |-> 0,
     gap |-> -1,
     fresh_gap |-> -1,
     dw |-> [was_stopped |-> FALSE, getregs |-> "none", arch_before |-> "none",
             status_in |-> "none", dirty |-> FALSE, asserted |-> "none"],
     re |-> [probes |-> 0, hit |-> FALSE, requests |-> 0, flagged |-> FALSE]]

NoOp == [op |-> "init", tid |-> 0]

\* No kill_all_tasks, no memory operation, no classification under way.
IdleKill == [pc |-> "idle"]
IdleMem == [pc |-> "idle"]
IdleTrap == [pc |-> "idle"]
IdleStep == [pc |-> "idle"]
IdleExec == [pc |-> "idle"]
IdleCStr == [pc |-> "idle"]
IdleDrop == [pc |-> "idle"]
IdleClone == [pc |-> "idle"]
IdleRefl == [pc |-> "idle"]
IdleIntr == [pc |-> "idle"]

\* The concerns a specification does not exercise stay idle.
IdleLater ==
    /\ step = IdleStep
    /\ exec = IdleExec
    /\ cstr = IdleCStr
    /\ drop = IdleDrop
    /\ clone = IdleClone
    /\ refl = IdleRefl
    /\ intr = IdleIntr

\* --------------------------------------------------- register cache (Task)

\* Task::set_regs: replace the cached registers and mark them dirty. Only a
\* stopped task's registers are edited (the caller's side of the contract).
set_regs(tk, r) ==
    [tk EXCEPT !.registers = r, !.registers_dirty = TRUE]

\* Task::flush_regs, the Task side: the cache is clean afterwards.
flush_regs(tk) ==
    [tk EXCEPT !.registers_dirty = FALSE]

\* Task::flush_regs, the kernel side: PTRACE_SETREGS reaches a live tracee.
flush_regs_kernel(tk, kn) ==
    IF tk.registers_dirty /\ kn.run # "dead"
    THEN [kn EXCEPT !.regs = to_ptrace(tk.registers)]
    ELSE kn

\* ---------------------------------------------------------- did_waitpid

\* PTRACE_GETSIGINFO is issued for a signal-delivery stop; when the tracee has
\* vanished the status becomes PTRACE_EVENT_EXIT.
status_after_getsiginfo(status, alive) ==
    IF status = "stop_sig" /\ ~alive THEN "exit_event" ELSE status

\* A mutant of refresh_registers: the cache is refreshed from the kernel but
\* the architecture is never redetermined.
refresh_registers_keep_arch(registers, kregs) ==
    set_from_ptrace(registers, kregs)

\* PTRACE_GETREGS succeeded: refresh the cache and redetermine the
\* architecture from CS, rebuilding the registers when it changed.
refresh_registers(registers, kregs) ==
    LET r1 == set_from_ptrace(registers, kregs)
        a == arch_of_cs(r1.cs)
    IN  IF a # r1.arch THEN set_from_ptrace(new_registers(a), kregs) ELSE r1

\* A mutant of publish_stop: the stop is recorded but is_stopped is not set.
publish_stop_not_stopped(tk, status) ==
    [tk EXCEPT !.wait_status = status]

\* did_waitpid publishes the stop.
publish_stop(tk, status) ==
    [tk EXCEPT !.is_stopped = TRUE, !.wait_status = status]

\* The post-stop fixups of did_waitpid that this model carries: a leftover
\* singlestep flag is cleared in the cache, which dirties it.
post_stop_fixups(tk) ==
    IF tk.registers.tf
    THEN [tk EXCEPT !.registers.tf = FALSE, !.registers_dirty = TRUE]
    ELSE tk

\* A mutant of registers_dirty_assert_ok: dirty registers are never asserted.
registers_dirty_assert_ok_always(tk, status) ==
    TRUE

\* status is not PTRACE_EVENT_EXIT => assert !registers_dirty.
registers_dirty_assert_ok(tk, status) ==
    (status = "exit_event") \/ ~tk.registers_dirty

\* did_waitpid(task, status). alive_siginfo / alive_regs: whether the tracee
\* still exists when PTRACE_GETSIGINFO / PTRACE_GETREGS is issued. The result
\* is the task afterwards, whether an assertion failed, and what GETREGS did.
did_waitpid(tk, kregs, status, alive_siginfo, alive_regs) ==
    LET st1 == status_after_getsiginfo(status, alive_siginfo)
        assert_ok == registers_dirty_assert_ok(tk, st1)
        getregs == IF tk.is_stopped THEN "skipped"
                   ELSE IF alive_regs THEN "ok" ELSE "failed"
        tk1 == IF getregs = "ok"
               THEN [tk EXCEPT !.registers = refresh_registers(tk.registers, kregs)]
               ELSE tk
        st2 == IF getregs = "failed" THEN "exit_event" ELSE st1
        tk2 == publish_stop(tk1, st2)
        tk3 == IF st2 = "exit_event"
               THEN [tk2 EXCEPT !.seen_ptrace_exit_event = TRUE]
               ELSE post_stop_fixups(tk2)
    IN  IF assert_ok
        THEN [task |-> tk3, abort |-> FALSE, getregs |-> getregs, status |-> st2,
              asserted |-> st1]
        ELSE [task |-> tk, abort |-> TRUE, getregs |-> "none", status |-> st1,
              asserted |-> st1]

\* ------------------------------------------------------- resume_execution

\* A mutant of resume_flush: resume_execution forgets to flush the registers.
resume_flush_skipped(tk) ==
    tk

\* resume_execution flushes the dirty registers before the ptrace request.
resume_flush(tk) ==
    flush_regs(tk)

\* A mutant of resume_mark_running: the task stays marked stopped.
resume_mark_running_skipped(tk) ==
    tk

\* resume_execution: is_stopped = false after the request (or the probe).
resume_mark_running(tk) ==
    [tk EXCEPT !.is_stopped = FALSE]

\* The non-blocking waitpid probe made while recording: it reports (and
\* consumes) a state change of the tracee, which can only be its exit.
probe_hit(kn, is_recording) ==
    is_recording /\ kn.event # "none"

\* The probe asserts that what it reaped is PTRACE_EVENT_EXIT or a fatal SIGKILL.
probe_assert_ok(kn, is_recording) ==
    probe_hit(kn, is_recording) => kn.event = "exit_event"

\* The number of waitpid(tid, WNOHANG) probes resume_execution makes.
probes_made(is_recording) ==
    IF is_recording THEN 1 ELSE 0

\* wait_ret > 0 ? no request : one ptrace_if_alive(how, ...).
ptrace_resume_requests(kn, is_recording) ==
    IF probe_hit(kn, is_recording) THEN 0 ELSE 1

\* A mutant of invalidate_extra_registers: the cached value is kept.
invalidate_extra_registers_skipped(tk) ==
    tk

\* resume_execution: extra_registers = None.
invalidate_extra_registers(tk) ==
    [tk EXCEPT !.extra_registers = "None"]

\* The Task side of resume_execution up to and including is_stopped = false
\* and extra_registers = None.
resume_execution(tk, kn, is_recording) ==
    LET tk1 == resume_flush(tk)
        tk2 == IF probe_hit(kn, is_recording)
               THEN [tk1 EXCEPT !.detected_unexpected_exit = TRUE]
               ELSE tk1
    IN  invalidate_extra_registers(resume_mark_running(tk2))

\* The kernel side of resume_execution: the flushed registers, the reaped
\* probe status, and the ptrace resume request, which sets a stopped tracee
\* running (with the trap flag armed by a singlestep request) and lets a
\* tracee in its exit stop die.
resume_execution_kernel(tk, kn, how, is_recording) ==
    LET k1 == flush_regs_kernel(tk, kn)
    IN  IF probe_hit(kn, is_recording)
        THEN [k1 EXCEPT !.event = "none"]
        ELSE IF ptrace_resume_requests(kn, is_recording) = 0
        THEN k1
        ELSE IF k1.run = "stopped"
             THEN [k1 EXCEPT !.run = "running", !.stepping = (how = "singlestep")]
             ELSE IF k1.run = "exit_stop"
                  THEN [k1 EXCEPT !.run = "dead", !.event = "none"]
                  ELSE k1

\* ------------------------------------------------ history of calls (ghost)

HistCap == 3

Bump(n) == IF n < HistCap THEN n + 1 ELSE n

hist_resume(h) ==
    [h EXCEPT !.resumed = TRUE,
              !.resumes_since_wait = Bump(h.resumes_since_wait),
              !.waits_since_resume = 0,
              !.fresh_waits_since_resume = 0,
              !.gap = IF h.resumed THEN h.waits_since_resume ELSE -1,
              !.fresh_gap = IF h.resumed THEN h.fresh_waits_since_resume ELSE -1]

\* What one resume_execution call did: its probes, whether the probe reaped
\* a status, its ptrace resume requests, and the flag it left.
hist_probe(h, tk, kn, is_recording) ==
    [h EXCEPT !.re = [probes |-> probes_made(is_recording),
                      hit |-> probe_hit(kn, is_recording),
                      requests |-> ptrace_resume_requests(kn, is_recording),
                      flagged |-> tk.detected_unexpected_exit]]

\* What one did_waitpid call found: the task as it was, the status passed in,
\* the status the dirty-register assertion saw, and what GETREGS did.
dw_of(tk, res, status) ==
    [was_stopped |-> tk.is_stopped, getregs |-> res.getregs,
     arch_before |-> tk.registers.arch, status_in |-> status,
     dirty |-> tk.registers_dirty, asserted |-> res.asserted]

hist_wait(h, tk, res, status) ==
    [h EXCEPT !.resumes_since_wait = 0,
              !.waits_since_resume = Bump(h.waits_since_resume),
              !.fresh_waits_since_resume =
                  IF tk.is_stopped THEN h.fresh_waits_since_resume
                  ELSE Bump(h.fresh_waits_since_resume),
              !.dw = dw_of(tk, res, status)]

\* ------------------------------------------------------------- wait (Task)

\* Task::wait reaps the tracee's pending wait status; after a resume that
\* detected an unexpected exit it surfaces PTRACE_EVENT_EXIT instead.
wait_ready(tk, kn) ==
    tk.detected_unexpected_exit \/ kn.event # "none"

wait_status_of(tk, kn) ==
    IF tk.detected_unexpected_exit THEN "exit_event" ELSE kn.event

\* The tracee may be killed and vanish between the waitpid that reported the
\* stop and the ptrace requests of did_waitpid.
Vanish == {"no", "before_getsiginfo", "before_getregs"}

wait_kernel(kn, die) ==
    IF die # "no"
    THEN [kn EXCEPT !.run = "dead", !.event = "none"]
    ELSE [kn EXCEPT !.event = "none"]

wait_task(tk, kn, die) ==
    did_waitpid([tk EXCEPT !.detected_unexpected_exit = FALSE],
                kn.regs, wait_status_of(tk, kn),
                kn.run # "dead" /\ die # "before_getsiginfo",
                kn.run # "dead" /\ die = "no")

\* ------------------------------------------------------ the tracee (kernel)

\* A running tracee stops: the kernel queues a wait status; the tracee may
\* have changed its code segment, and after a singlestep the trap flag may
\* be left in its flags.
tracee_stop(kn, st, cs, tf) ==
    [kn EXCEPT !.run = IF st = "exit_event" THEN "exit_stop" ELSE "stopped",
               !.event = st, !.stepping = FALSE,
               !.regs.cs = cs, !.regs.tf = tf]

\* --------------------------------------------------------- actions of Spec

\* A register edit on a stopped task (set_regs): the trap flag or the code
\* segment, as the ptrace reflection (PTRACE_SETREGS) may write them.
SetRegs(t) ==
    /\ ~aborted
    /\ t \in sess.task_map
    /\ tasks[t].is_stopped
    /\ \E cs \in Selectors, tf \in BOOLEAN :
          tasks' = [tasks EXCEPT
              ![t] = set_regs(@, [@.registers EXCEPT !.cs = cs, !.tf = tf])]
    /\ last_op' = [op |-> "set_regs", tid |-> t]
    /\ UNCHANGED <<notProto, kern, sess, aborted, hist>>

\* Task::extra_regs on a stopped task: the extra registers are fetched from
\* the tracee and cached.
ExtraRegs(t) ==
    /\ ~aborted
    /\ t \in sess.task_map
    /\ tasks[t].is_stopped
    /\ tasks[t].extra_registers = "None"
    /\ tasks' = [tasks EXCEPT ![t].extra_registers = "Some"]
    /\ last_op' = [op |-> "extra_regs", tid |-> t]
    /\ UNCHANGED <<notProto, kern, sess, aborted, hist>>

FlushRegs(t) ==
    /\ ~aborted
    /\ t \in sess.task_map
    /\ tasks[t].is_stopped
    /\ tasks' = [tasks EXCEPT ![t] = flush_regs(@)]
    /\ kern' = [kern EXCEPT ![t] = flush_regs_kernel(tasks[t], @)]
    /\ last_op' = [op |-> "flush_regs", tid |-> t]
    /\ UNCHANGED <<notProto, sess, aborted, hist>>

\* resume_execution(how, ResumeNonblocking, ...). Precondition: is_stopped.
ResumeExecution(t) ==
    /\ ~aborted
    /\ t \in sess.task_map
    /\ tasks[t].is_stopped
    /\ \E how \in {"cont", "singlestep"} :
          IF probe_assert_ok(kern[t], sess.is_recording)
          THEN /\ tasks' = [tasks EXCEPT
                      ![t] = resume_execution(@, kern[t], sess.is_recording)]
               /\ kern' = [kern EXCEPT
                      ![t] = resume_execution_kernel(tasks[t], @, how,
                                                     sess.is_recording)]
               /\ hist' = [hist EXCEPT
                      ![t] = hist_probe(hist_resume(@), tasks'[t], kern[t],
                                        sess.is_recording)]
               /\ last_op' = [op |-> "resume_execution", tid |-> t]
               /\ UNCHANGED <<notProto, sess, aborted>>
          ELSE /\ aborted' = TRUE
               /\ last_op' = [op |-> "abort", tid |-> t]
               /\ UNCHANGED <<notProto, tasks, kern, sess, hist>>

\* wait()/try_wait() reaped a status for the task: did_waitpid(status).
DidWaitpid(t) ==
    /\ ~aborted
    /\ t \in sess.task_map
    /\ wait_ready(tasks[t], kern[t])
    /\ \E die \in (IF kern[t].run = "dead" THEN {"no"} ELSE Vanish) :
          LET res == wait_task(tasks[t], kern[t], die)
          IN  IF res.abort
              THEN /\ aborted' = TRUE
                   /\ hist' = [hist EXCEPT
                          ![t].dw = dw_of(tasks[t], res,
                                          wait_status_of(tasks[t], kern[t]))]
                   /\ last_op' = [op |-> "did_waitpid_abort", tid |-> t]
                   /\ UNCHANGED <<notProto, tasks, kern, sess>>
              ELSE /\ tasks' = [tasks EXCEPT ![t] = res.task]
                   /\ kern' = [kern EXCEPT ![t] = wait_kernel(@, die)]
                   /\ hist' = [hist EXCEPT
                          ![t] = hist_wait(@, tasks[t], res,
                                           wait_status_of(tasks[t], kern[t]))]
                   /\ last_op' = [op |-> "did_waitpid", tid |-> t]
                   /\ UNCHANGED <<notProto, sess, aborted>>

\* did_waitpid(status) called with a status its caller holds for a task that
\* is marked stopped, has not been resumed and has register edits pending:
\* status is the caller's argument, any stop status; the tracee may have
\* vanished by then.
DidWaitpidStatus(t) ==
    /\ ~aborted
    /\ t \in sess.task_map
    /\ tasks[t].is_stopped
    /\ tasks[t].registers_dirty
    /\ kern[t].run = "stopped"
    /\ kern[t].event = "none"
    /\ \E status \in StopStatuses, die \in {"no", "before_getsiginfo"} :
          LET res == did_waitpid(tasks[t], kern[t].regs, status,
                                 die = "no", die = "no")
          IN  /\ hist' = [hist EXCEPT
                     ![t] = IF res.abort
                            THEN [@ EXCEPT !.dw = dw_of(tasks[t], res, status)]
                            ELSE hist_wait(@, tasks[t], res, status)]
              /\ tasks' = [tasks EXCEPT ![t] = res.task]
              /\ kern' = [kern EXCEPT
                     ![t] = IF res.abort THEN @ ELSE wait_kernel(@, die)]
              /\ aborted' = res.abort
              /\ last_op' = [op |-> IF res.abort THEN "did_waitpid_abort"
                                    ELSE "did_waitpid",
                             tid |-> t]
              /\ UNCHANGED <<notProto, sess>>

\* resume_execution(how, ResumeWait, ...): the resume, the tracee's run up to
\* its next stop, and the did_waitpid that wait(None) calls, in one call.
ResumeExecutionWait(t) ==
    /\ ~aborted
    /\ t \in sess.task_map
    /\ tasks[t].is_stopped
    /\ probe_assert_ok(kern[t], sess.is_recording)
    /\ \E how \in {"cont", "singlestep"}, st \in Statuses, cs \in Selectors,
          tf \in BOOLEAN, die \in Vanish :
          LET tk1 == resume_execution(tasks[t], kern[t], sess.is_recording)
              k1 == resume_execution_kernel(tasks[t], kern[t], how,
                                            sess.is_recording)
              k2 == IF k1.run = "running"
                    THEN tracee_stop(k1, st, cs, tf /\ how = "singlestep")
                    ELSE k1
              res == wait_task(tk1, k2, IF k2.run = "dead" THEN "no" ELSE die)
              h1 == hist_probe(hist_resume(hist[t]), tk1, kern[t],
                               sess.is_recording)
          IN  /\ wait_ready(tk1, k2)
              /\ ~res.abort
              /\ tasks' = [tasks EXCEPT ![t] = res.task]
              /\ kern' = [kern EXCEPT
                     ![t] = wait_kernel(k2, IF k2.run = "dead" THEN "no" ELSE die)]
              /\ hist' = [hist EXCEPT
                     ![t] = hist_wait(h1, tk1, res, wait_status_of(tk1, k2))]
              /\ last_op' = [op |-> "resume_execution_wait", tid |-> t]
              /\ UNCHANGED <<notProto, sess, aborted>>

\* The running tracee stops (a signal, a syscall, an event, its exit).
TraceeStops(t) ==
    /\ ~aborted
    /\ t \in sess.task_map
    /\ kern[t].run = "running"
    /\ \E st \in Statuses, cs \in Selectors,
          tf \in (IF kern[t].stepping THEN BOOLEAN ELSE {FALSE}) :
          kern' = [kern EXCEPT ![t] = tracee_stop(@, st, cs, tf)]
    /\ last_op' = [op |-> "tracee_stops", tid |-> t]
    /\ UNCHANGED <<notProto, tasks, sess, aborted, hist>>

\* A tracee sitting in a ptrace-stop is woken by SIGKILL and advances to its
\* PTRACE_EVENT_EXIT stop without having been resumed.
TraceeKilled(t) ==
    /\ ~aborted
    /\ t \in sess.task_map
    /\ kern[t].run = "stopped"
    /\ kern[t].event = "none"
    /\ kern' = [kern EXCEPT ![t] = [@ EXCEPT !.run = "exit_stop",
                                             !.event = "exit_event"]]
    /\ last_op' = [op |-> "tracee_killed", tid |-> t]
    /\ UNCHANGED <<notProto, tasks, sess, aborted, hist>>

\* A session with one task, stopped after its first wait, recording or not,
\* its tracee 32-bit or 64-bit.
Init ==
    /\ \E cs \in Selectors :
          /\ tasks = [t \in Tids |-> InitTask(cs, TRUE, FALSE, 1, 1)]
          /\ kern = [t \in Tids |-> InitKern(cs, TRUE)]
    /\ \E rec \in BOOLEAN :
          sess = [task_map |-> {1}, vm_map |-> {1}, thread_group_map |-> {1},
                  is_recording |-> rec]
    /\ aborted = FALSE
    /\ last_op = NoOp
    /\ hist = [t \in Tids |-> InitHist]
    /\ kill = IdleKill
    /\ mem = IdleMem
    /\ trap = IdleTrap
    /\ IdleLater

Next ==
    \E t \in Tids :
        \/ SetRegs(t)
        \/ FlushRegs(t)
        \/ ExtraRegs(t)
        \/ ResumeExecution(t)
        \/ ResumeExecutionWait(t)
        \/ DidWaitpid(t)
        \/ DidWaitpidStatus(t)
        \/ TraceeStops(t)
        \/ TraceeKilled(t)

Spec == Init /\ [][Next]_vars

\* ------------------------------------------- properties of the task protocol

AfterResume(t) ==
    last_op.tid = t /\ last_op.op = "resume_execution"

AfterDidWaitpid(t) ==
    last_op.tid = t /\ last_op.op \in {"did_waitpid", "resume_execution_wait"}

\* C1: in every reachable state, a task's registers_dirty is true only while
\* its is_stopped is true, under any sequence of resume_execution,
\* did_waitpid, set_regs and flush_regs.
C1_DirtyOnlyWhileStopped ==
    \A t \in sess.task_map : tasks[t].registers_dirty => tasks[t].is_stopped

\* C1 happens: a did_waitpid that took the task from running to stopped left
\* its registers dirty (the singlestep flag was cleared by the fixups).
C1_Witness ==
    \E t \in sess.task_map :
        /\ AfterDidWaitpid(t)
        /\ ~hist[t].dw.was_stopped
        /\ tasks[t].registers_dirty
        /\ tasks[t].is_stopped

C9_ArchFollowsCS ==
    \A t \in sess.task_map :
        AfterDidWaitpid(t) =>
            (tasks[t].registers.arch = "X64"
                <=> is_long_mode_segment(kern[t].regs.cs))

\* C9, amended: after a did_waitpid that found the task not yet marked
\* stopped and whose PTRACE_GETREGS succeeded, the architecture is X64 iff
\* the kernel's CS selector is a long-mode segment, X86 otherwise; after any
\* other did_waitpid the architecture is what it was before the call.
C9_ArchFollowsCSWhenRefreshed ==
    \A t \in sess.task_map :
        AfterDidWaitpid(t) =>
            /\ tasks[t].registers.arch \in {"X64", "X86"}
            /\ hist[t].dw.getregs = "ok" =>
                  /\ ~hist[t].dw.was_stopped
                  /\ tasks[t].registers.cs = kern[t].regs.cs
                  /\ tasks[t].registers.arch = "X64"
                        <=> is_long_mode_segment(kern[t].regs.cs)
            /\ hist[t].dw.getregs # "ok" =>
                  tasks[t].registers.arch = hist[t].dw.arch_before

\* C9 happens: a did_waitpid whose PTRACE_GETREGS succeeded changed the
\* task's architecture.
C9_Witness ==
    \E t \in sess.task_map :
        /\ AfterDidWaitpid(t)
        /\ hist[t].dw.getregs = "ok"
        /\ tasks[t].registers.arch # hist[t].dw.arch_before

\* ============================================================ kill_all_tasks

\* How often PTRACE_DETACH may fail with a spurious ESRCH on a live tracee.
MaxDetachRetries == 1

SetMax(S) == CHOOSE x \in S : \A y \in S : y <= x
SetMin(S) == CHOOSE x \in S : \A y \in S : x <= y

\* A mutant of phase1_skips: phase 1 prepares and detaches every task.
phase1_skips_none(tk) ==
    FALSE

\* Phase 1 skips a task that is not stopped.
phase1_skips(tk) ==
    ~tk.is_stopped

\* The registers that make the tracee do exit(0) if it runs at all.
exit_syscall_regs(r) ==
    [r EXCEPT !.ip = "privileged_traced_syscall_ip", !.syscallno = "exit",
              !.arg1 = 0]

\* Phase 1 on a stopped task, up to the detach loop: set_regs and flush_regs.
prepare_detach(tk) ==
    flush_regs(set_regs(tk, exit_syscall_regs(tk.registers)))

\* What one PTRACE_DETACH can answer: success, ESRCH because the tracee is a
\* zombie, ESRCH although the tracee is there, or another errno.
detach_outcomes(kn, retries) ==
    IF kn.run = "dead"
    THEN {"esrch_zombie"}
    ELSE {"ok", "esrch_retry", "other_errno"}

\* The retries of one detach loop are counted up to MaxDetachRetries.
count_retry(retries) ==
    IF retries < MaxDetachRetries THEN retries + 1 ELSE retries

\* A mutant of detach_assert_ok: any errno passes the assertion.
detach_assert_ok_any_errno(outcome) ==
    TRUE

\* ed_assert!(result >= 0 || errno() == ESRCH).
detach_assert_ok(outcome) ==
    outcome # "other_errno"

\* A mutant of detach_loop_ends: the loop gives up after any ESRCH.
detach_loop_ends_on_any_answer(outcome) ==
    TRUE

\* The detach loop ends on success, or on ESRCH for a zombie.
detach_loop_ends(outcome) ==
    outcome \in {"ok", "esrch_zombie"}

\* The task map is drained from its last key.
pop_last(task_map) ==
    SetMax(task_map)

\* A mutant of sends_tgkill: every drained task is sent SIGKILL.
sends_tgkill_always(tk) ==
    TRUE

\* Phase 2 sends SIGKILL unless the task is already unstable.
sends_tgkill(tk) ==
    ~tk.unstable

\* A mutant of destabilize: no task is marked.
destabilize_nothing(ts, tg) ==
    ts

\* ThreadGroup::destabilize: every task of the thread group becomes unstable.
destabilize(ts, tg) ==
    [t \in DOMAIN ts |->
        IF ts[t].tg = tg THEN [ts[t] EXCEPT !.unstable = TRUE] ELSE ts[t]]

\* The drained task is dropped at the end of the iteration; the drop of a
\* task that is not unstable asserts that its exit event was seen.
drop_assert_ok(tk) ==
    tk.unstable \/ tk.seen_ptrace_exit_event

\* A mutant of task_at_drop: the task is dropped as it was popped, before
\* its thread group is destabilized.
task_at_drop_as_popped(ts_popped, ts_end, t) ==
    ts_popped[t]

\* The popped task is released when the iteration ends, after the tgkill
\* and the destabilize: the destructor sees the task as it is then.
task_at_drop(ts_popped, ts_end, t) ==
    ts_end[t]

\* The branch task_drop_common takes on the task.
drop_path(tk) ==
    IF tk.unstable THEN "unstable" ELSE "stable"

\* A mutant of collect_vm_uids: no address space uid is collected.
collect_vm_uids_none(s) ==
    {}

collect_vm_uids(s) ==
    s.vm_map

\* A mutant of collect_tg_uids: no thread group uid is collected.
collect_tg_uids_none(s) ==
    {}

collect_tg_uids(s) ==
    s.thread_group_map

\* Session::on_destroy_vm / on_destroy_tg: the uid leaves the session's map.
on_destroy_vm(s, uid) ==
    [s EXCEPT !.vm_map = @ \ {uid}]

on_destroy_tg(s, uid) ==
    [s EXCEPT !.thread_group_map = @ \ {uid}]

\* Where kill_all_tasks stands once the phase-1 loop has handled a task, once
\* the task map is drained, and once the address spaces are gone.
after_phase1_task(todo) ==
    IF todo = {} THEN "phase2" ELSE "phase1"

after_phase2(s) ==
    IF collect_vm_uids(s) # {} THEN "cleanup_vm"
    ELSE IF collect_tg_uids(s) # {} THEN "cleanup_tg" ELSE "done"

after_cleanup_vm(s) ==
    IF collect_tg_uids(s) # {} THEN "cleanup_tg" ELSE "done"

\* The layouts of a session kill_all_tasks can be called on: which tids have
\* a task, and each task's thread group and address space (named by their
\* first task; the tasks of a thread group share the address space).
Layouts ==
    {l \in [map : SUBSET Tids \ {{}}, tg : [Tids -> Tids], vm : [Tids -> Tids]] :
        \A t \in Tids :
            /\ l.tg[t] <= t /\ l.tg[l.tg[t]] = l.tg[t]
            /\ l.vm[t] <= t /\ l.vm[l.vm[t]] = l.vm[t]
            /\ l.vm[t] = l.vm[l.tg[t]]
            /\ t \in l.map => l.tg[t] \in l.map /\ l.vm[t] \in l.map
            /\ t \notin l.map => l.tg[t] = t /\ l.vm[t] = t}

InitKill ==
    /\ \E l \in Layouts, stopped \in SUBSET Tids, unstable \in SUBSET Tids,
          dead \in SUBSET Tids :
          /\ stopped \subseteq l.map /\ unstable \subseteq l.map
          /\ dead \subseteq stopped
          /\ tasks = [t \in Tids |->
                 InitTask(51, t \in stopped \/ t \notin l.map, t \in unstable,
                          l.tg[t], l.vm[t])]
          /\ kern = [t \in Tids |->
                 IF t \in dead
                 THEN [InitKern(51, TRUE) EXCEPT !.run = "dead"]
                 ELSE InitKern(51, t \in stopped \/ t \notin l.map)]
          /\ sess = [task_map |-> l.map,
                     vm_map |-> {l.vm[t] : t \in l.map},
                     thread_group_map |-> {l.tg[t] : t \in l.map},
                     is_recording |-> TRUE]
          /\ kill = [pc |-> "phase1", todo |-> l.map, cur |-> 0, retries |-> 0,
                     vm_uids |-> {}, tg_uids |-> {},
                     detach |-> [t \in Tids |-> "none"],
                     answer |-> "none",
                     tgkilled |-> {}, touched |-> {},
                     drop_path |-> [t \in Tids |-> "none"],
                     found_unstable |-> {}, found_tg_unstable |-> {},
                     calls_vm |-> [u \in Tids |-> 0],
                     calls_tg |-> [u \in Tids |-> 0],
                     at_empty |-> [vm |-> {}, tg |-> {}, reached |-> FALSE],
                     early_calls |-> FALSE,
                     start |-> [map |-> l.map, stopped |-> stopped,
                                unstable |-> unstable, dead |-> dead]]
    /\ aborted = FALSE
    /\ last_op = NoOp
    /\ hist = [t \in Tids |-> InitHist]
    /\ mem = IdleMem
    /\ trap = IdleTrap
    /\ IdleLater

\* Phase 1, a task that is not stopped: skipped.
KillSkip ==
    /\ ~aborted
    /\ kill.pc = "phase1"
    /\ LET t == SetMin(kill.todo)
       IN  /\ phase1_skips(tasks[t])
           /\ kill' = [kill EXCEPT !.todo = @ \ {t},
                                   !.pc = after_phase1_task(kill.todo \ {t})]
           /\ last_op' = [op |-> "kill_skip", tid |-> t]
    /\ UNCHANGED <<notKill, tasks, kern, sess, aborted>>

\* Phase 1, a stopped task: its registers are pointed at the exit syscall
\* and flushed.
KillPrepare ==
    /\ ~aborted
    /\ kill.pc = "phase1"
    /\ LET t == SetMin(kill.todo)
       IN  /\ ~phase1_skips(tasks[t])
           /\ tasks' = [tasks EXCEPT ![t] = prepare_detach(@)]
           /\ kern' = [kern EXCEPT ![t] =
                  flush_regs_kernel(set_regs(tasks[t],
                                             exit_syscall_regs(tasks[t].registers)), @)]
           /\ kill' = [kill EXCEPT !.pc = "detach", !.cur = t, !.retries = 0,
                                   !.answer = "none",
                                   !.touched = @ \cup {t}]
           /\ last_op' = [op |-> "kill_prepare", tid |-> t]
    /\ UNCHANGED <<notKill, sess, aborted>>

\* Phase 1, one PTRACE_DETACH of the detach loop.
KillDetach ==
    /\ ~aborted
    /\ kill.pc = "detach"
    /\ LET t == kill.cur
       IN  \E o \in detach_outcomes(kern[t], kill.retries) :
              /\ kern' = [kern EXCEPT ![t] =
                     IF o = "ok"
                     THEN [@ EXCEPT !.attached = FALSE, !.run = "running"]
                     ELSE @]
              /\ kill' =
                     IF ~detach_assert_ok(o)
                     THEN [kill EXCEPT !.answer = o]
                     ELSE IF detach_loop_ends(o)
                     THEN [kill EXCEPT
                              !.detach[t] = IF o = "ok" THEN "ok"
                                            ELSE IF o = "esrch_zombie" THEN "zombie"
                                            ELSE "gave_up",
                              !.todo = @ \ {t}, !.cur = 0, !.answer = o,
                              !.pc = after_phase1_task(kill.todo \ {t})]
                     ELSE [kill EXCEPT !.retries = count_retry(@),
                                       !.answer = o]
              /\ aborted' = ~detach_assert_ok(o)
              /\ last_op' = [op |-> "kill_detach", tid |-> t]
    /\ UNCHANGED <<notKill, tasks, sess>>

\* Phase 2, one iteration: the last task leaves the map, is sent SIGKILL
\* unless unstable, its thread group is destabilized, and the task is dropped.
KillPop ==
    /\ ~aborted
    /\ kill.pc = "phase2"
    /\ LET t == pop_last(sess.task_map)
           s1 == [sess EXCEPT !.task_map = @ \ {t}]
           send == sends_tgkill(tasks[t])
           ts1 == IF send THEN destabilize(tasks, tasks[t].tg) ELSE tasks
       IN  /\ tasks' = ts1
           /\ kern' = [kern EXCEPT ![t] =
                  IF send /\ @.run # "dead"
                  THEN [@ EXCEPT !.run = "dead", !.event = "none"] ELSE @]
           /\ sess' = s1
           /\ aborted' = ~drop_assert_ok(task_at_drop(tasks, ts1, t))
           /\ kill' = [kill EXCEPT
                  !.drop_path[t] = drop_path(task_at_drop(tasks, ts1, t)),
                  !.tgkilled = IF send THEN @ \cup {t} ELSE @,
                  !.found_unstable = IF tasks[t].unstable THEN @ \cup {t} ELSE @,
                  !.found_tg_unstable =
                      IF \E u \in kill.start.map :
                             tasks[u].tg = tasks[t].tg /\ tasks[u].unstable
                      THEN @ \cup {t} ELSE @,
                  !.at_empty = IF s1.task_map = {}
                               THEN [vm |-> s1.vm_map, tg |-> s1.thread_group_map,
                                     reached |-> TRUE]
                               ELSE @,
                  !.vm_uids = IF s1.task_map = {} THEN collect_vm_uids(s1) ELSE @,
                  !.tg_uids = IF s1.task_map = {} THEN collect_tg_uids(s1) ELSE @,
                  !.pc = IF s1.task_map = {} THEN after_phase2(s1) ELSE "phase2"]
           /\ last_op' = [op |-> "kill_pop", tid |-> t]
    /\ UNCHANGED notKill

\* The cleanup: on_destroy_vm for each collected address space uid.
KillDestroyVm ==
    /\ ~aborted
    /\ kill.pc = "cleanup_vm"
    /\ \E uid \in kill.vm_uids :
          LET s1 == on_destroy_vm(sess, uid)
              last == kill.vm_uids = {uid}
          IN  /\ sess' = s1
              /\ kill' = [kill EXCEPT
                     !.calls_vm[uid] = @ + 1,
                     !.early_calls = @ \/ sess.task_map # {},
                     !.vm_uids = @ \ {uid},
                     !.tg_uids = IF last THEN collect_tg_uids(s1) ELSE @,
                     !.pc = IF last THEN after_cleanup_vm(s1) ELSE @]
              /\ last_op' = [op |-> "on_destroy_vm", tid |-> uid]
    /\ UNCHANGED <<notKill, tasks, kern, aborted>>

\* The cleanup: on_destroy_tg for each collected thread group uid; after the
\* last one kill_all_tasks returns.
KillDestroyTg ==
    /\ ~aborted
    /\ kill.pc = "cleanup_tg"
    /\ \E uid \in kill.tg_uids :
          /\ sess' = on_destroy_tg(sess, uid)
          /\ kill' = [kill EXCEPT
                 !.calls_tg[uid] = @ + 1,
                 !.early_calls = @ \/ sess.task_map # {},
                 !.tg_uids = @ \ {uid},
                 !.pc = IF kill.tg_uids = {uid} THEN "done" ELSE @]
          /\ last_op' = [op |-> "on_destroy_tg", tid |-> uid]
    /\ UNCHANGED <<notKill, tasks, kern, aborted>>

NextKill ==
    \/ KillSkip
    \/ KillPrepare
    \/ KillDetach
    \/ KillPop
    \/ KillDestroyVm
    \/ KillDestroyTg

SpecKill == InitKill /\ [][NextKill]_vars

\* kill_all_tasks runs on: each of its steps is taken when it can be, and a
\* PTRACE_DETACH that can change the state of the loop eventually does, which
\* rules out the spurious ESRCH being repeated forever.
SpecKillLive == SpecKill /\ WF_vars(NextKill) /\ WF_vars(KillDetach)

\* ----------------------------------------------- properties of the shutdown

KillReturned ==
    kill.pc = "done" /\ ~aborted

\* C3: when kill_all_tasks returns, the session's task map, address-space
\* map and thread-group map are all empty, whatever the initial mix of
\* stopped, running and unstable tasks.
C3_MapsEmptyOnReturn ==
    KillReturned =>
        /\ sess.task_map = {}
        /\ sess.vm_map = {}
        /\ sess.thread_group_map = {}

\* C3 happens: kill_all_tasks has returned for a session that held a stopped,
\* a running and an unstable task in two address spaces.
C3_Witness ==
    /\ KillReturned
    /\ kill.start.stopped # {}
    /\ kill.start.map \ kill.start.stopped # {}
    /\ kill.start.unstable # {}
    /\ Cardinality({tasks[t].vm : t \in kill.start.map}) > 1
    /\ sess.vm_map = {}

\* C4 as stated: no SIGKILL is sent before every task that was stopped at
\* the start has been detached by a PTRACE_DETACH that returned success.
C4_TgkillAfterSuccessfulDetach ==
    kill.tgkilled # {} =>
        \A t \in kill.start.stopped : kill.detach[t] = "ok"

\* C4, amended: no SIGKILL is sent before the detach loop of every task that
\* was stopped at the start has ended, by a PTRACE_DETACH that returned
\* success or by ESRCH for a tracee that is a zombie; the whole of phase 1
\* precedes the first SIGKILL.
C4_TgkillAfterDetachPhase ==
    kill.tgkilled # {} =>
        /\ kill.todo = {}
        /\ kill.touched = kill.start.stopped
        /\ \A t \in kill.start.stopped :
              /\ kill.detach[t] \in {"ok", "zombie"}
              /\ kill.detach[t] = "ok" => ~kern[t].attached
              /\ kill.detach[t] = "zombie" => t \in kill.start.dead

\* C4 happens: the first SIGKILL has just been sent in a session where one
\* stopped task was detached after a retry and another was found a zombie.
C4_Witness ==
    /\ last_op.op = "kill_pop"
    /\ Cardinality(kill.tgkilled) = 1
    /\ \E t1, t2 \in kill.start.stopped :
          kill.detach[t1] = "ok" /\ kill.detach[t2] = "zombie"

\* The two-task session of scenario S5: t1 stopped, t2 running.
S5(t1, t2) ==
    /\ t1 # t2
    /\ kill.start.map = {t1, t2}
    /\ kill.start.stopped = {t1}

PointedAtExit(regs) ==
    /\ regs.ip = "privileged_traced_syscall_ip"
    /\ regs.syscallno = "exit"
    /\ regs.arg1 = 0

\* C5 as stated: with t1 stopped and t2 running, kill_all_tasks detaches t1
\* after pointing it at the exit syscall, leaves t2 alone in phase 1, sends
\* SIGKILL to both, and empties the task map.
C5_TwoTaskShutdown ==
    \A t1, t2 \in Tids :
        S5(t1, t2) /\ KillReturned =>
            /\ kill.detach[t1] = "ok"
            /\ PointedAtExit(kern[t1].regs)
            /\ t2 \notin kill.touched
            /\ kill.tgkilled = {t1, t2}
            /\ sess.task_map = {}

\* C5, amended: t1's registers are pointed at the exit syscall and t1 is
\* detached (its detach loop ends with ESRCH instead when its tracee is a
\* zombie), t2 is left alone in phase 1, and the task map ends empty; SIGKILL
\* goes to the task with the larger tid unless it was unstable, and to the
\* other one unless it was unstable or the first SIGKILL destabilized its
\* thread group: to both when neither was unstable and their thread groups
\* differ.
C5_TwoTaskShutdownAmended ==
    \A t1, t2 \in Tids :
        S5(t1, t2) /\ KillReturned =>
            LET hi == SetMax({t1, t2})
                lo == SetMin({t1, t2})
            IN  /\ kill.touched = {t1}
                /\ t1 \notin kill.start.dead =>
                      kill.detach[t1] = "ok" /\ PointedAtExit(kern[t1].regs)
                /\ t1 \in kill.start.dead => kill.detach[t1] = "zombie"
                /\ kill.detach[t2] = "none"
                /\ hi \in kill.tgkilled <=> hi \notin kill.start.unstable
                /\ lo \in kill.tgkilled <=>
                      /\ lo \notin kill.start.unstable
                      /\ ~(hi \in kill.tgkilled /\ tasks[hi].tg = tasks[lo].tg)
                /\ sess.task_map = {}

\* C5 happens: kill_all_tasks has returned in scenario S5 with the two tasks
\* in different thread groups and both sent SIGKILL.
C5_Witness ==
    \E t1, t2 \in Tids :
        /\ S5(t1, t2) /\ KillReturned
        /\ tasks[t1].tg # tasks[t2].tg
        /\ kill.detach[t1] = "ok"
        /\ kill.tgkilled = {t1, t2}

\* ============================================================ tracee memory

\* The tracee's address space is NumPages pages; the model's addresses are
\* page-granular: address p is one byte on page p, so a buffer of n bytes at
\* address a covers the pages a .. a+n-1. Buffers have up to MaxLen bytes.
NumPages == 2
MaxLen == 2
\* How often open_mem_fd is followed within one call.
MaxReopen == 2

Pages == 0 .. (NumPages - 1)

\* Bytes written by the tracer; the memory starts zeroed.
Bytes == {1}

Bufs == UNION {[1 .. n -> Bytes] : n \in 0 .. MaxLen}

\* The mappings of the AddressSpace (KernelMapping prot and flags), and no
\* mapping: read-write private; PROT_READ private; PROT_READ MAP_SHARED;
\* PROT_NONE; shared memory the tracer has mapped locally as well.
Kinds == {"rw", "r_private", "r_shared", "none", "local", "unmapped"}

prot_of(kind) ==
    CASE kind = "rw" -> {"r", "w"}
      [] kind = "local" -> {"r", "w"}
      [] kind = "r_private" -> {"r"}
      [] kind = "r_shared" -> {"r"}
      [] OTHER -> {}

is_shared(kind) == kind \in {"r_shared", "local"}

is_mapped(m, p) == p \in Pages /\ m.am[p] # "unmapped"

range(a, n) == a .. (a + n - 1)

\* AddressSpace::local_mapping: the tracer's own alias of the whole range.
local_mapping(m, a, n) ==
    \A p \in range(a, n) : p \in Pages /\ m.am[p] = "local"

\* The longest prefix of the n bytes at a whose pages are all in ok.
RECURSIVE prefix_len(_, _, _)
prefix_len(a, n, ok) ==
    IF n = 0 \/ a \notin ok THEN 0 ELSE 1 + prefix_len(a + 1, n - 1, ok)

\* The kernel reads a page for the tracer (FOLL_FORCE) whenever it is mapped.
k_readable(m) ==
    {p \in Pages : is_mapped(m, p)}

\* The kernel writes a page for the tracer when it is writable, or private
\* and not PROT_NONE (FOLL_FORCE; the page is copied); a private PROT_NONE
\* page is written unless the kernel has the bug of bugzilla 99101; a
\* read-only MAP_SHARED page is never written.
k_writable(m, knl_bug) ==
    {p \in Pages :
        /\ is_mapped(m, p)
        /\ \/ "w" \in m.kprot[p]
           \/ ~is_shared(m.am[p]) /\ m.kprot[p] # {}
           \/ ~is_shared(m.am[p]) /\ m.kprot[p] = {} /\ ~knl_bug}

\* The bytes the tracee holds at a .. a+n-1.
bytes_at(m, a, n) ==
    [i \in 1 .. n |-> m.data[a + i - 1]]

\* The first k bytes of buf stored at a.
store(m, a, buf, k) ==
    [m EXCEPT !.data = [p \in Pages |->
        IF p \in range(a, k) THEN buf[p - a + 1] ELSE @[p]]]

\* --------------------------------------------------------------- open_mem_fd

\* What the open-mem-fd dance can end in: no fd, an fd on the tracee's
\* address space, or again an fd on a dead address space. Within one call the
\* dance is followed at most MaxReopen times, the last of them conclusive.
OpenScripts ==
    {sc \in UNION {[1 .. k -> {"closed", "fresh", "stale"}] : k \in 1 .. MaxReopen} :
        /\ sc[Len(sc)] # "stale"
        /\ \A i \in 1 .. (Len(sc) - 1) : sc[i] = "stale"}

\* The scripts that can make a difference to a call: open_mem_fd is only
\* reached from an fd on a dead address space.
open_scripts(m) ==
    IF m.fd = "stale" THEN OpenScripts ELSE {<<"closed">>}

\* Whether the kernel has the PROT_NONE bug can only show when the range
\* meets a PROT_NONE mapping.
knl_bug_choices(m, a, n) ==
    IF \E p \in range(a, n) : p \in Pages /\ m.am[p] = "none"
    THEN BOOLEAN ELSE {FALSE}

\* open_mem_fd: the old fd is closed first; a task that is not stopped gets
\* no new fd; otherwise the fd is what the dance produced. The result is the
\* AddressSpace's mem fd; open_mem_fd returns whether it is open.
open_mem_fd(is_stopped, outcome) ==
    IF ~is_stopped THEN "closed" ELSE outcome

\* ------------------------------------------------------- read_bytes_fallible

\* pread64 on the mem fd: 0 with errno 0 from an fd on a dead address space;
\* otherwise the readable prefix, or -1 with EIO when there is none.
pread64(m, a, n) ==
    IF m.fd = "stale" THEN [n |-> 0, errno |-> "0"]
    ELSE LET k == prefix_len(a, n, k_readable(m))
         IN  IF k = 0 THEN [n |-> -1, errno |-> "EIO"] ELSE [n |-> k, errno |-> "0"]

\* A mutant of stale_zero_read: a zero-byte first read is not told apart.
stale_zero_read_never(nread, all_read, errno) ==
    FALSE

\* The read that tells a stale mem fd: 0 bytes, nothing read yet, errno 0.
stale_zero_read(nread, all_read, errno) ==
    nread = 0 /\ all_read = 0 /\ errno = "0"

\* A mutant of reopen_failed: the loop gives up after one open_mem_fd.
reopen_failed_or_done(fd) ==
    TRUE

\* !task.open_mem_fd(): no mem fd could be opened.
reopen_failed(fd) ==
    fd = "closed"

\* The pread64 loop of read_bytes_fallible. opens: what the coming
\* open_mem_fd calls produce. The result: Ok(n) or Err, the fd afterwards,
\* and the number of open_mem_fd calls made.
RECURSIVE read_loop(_, _, _, _, _, _, _)
read_loop(m, is_stopped, a, n, all_read, opens, reopens) ==
    IF all_read >= n
    THEN [res |-> "Ok", n |-> all_read, fd |-> m.fd, reopens |-> reopens]
    ELSE LET r == pread64(m, a + all_read, n - all_read)
         IN  IF stale_zero_read(r.n, all_read, r.errno)
             THEN LET fd1 == open_mem_fd(is_stopped, Head(opens))
                  IN  IF reopen_failed(fd1)
                      THEN [res |-> "Ok", n |-> 0, fd |-> fd1,
                            reopens |-> reopens + 1]
                      ELSE read_loop([m EXCEPT !.fd = fd1], is_stopped, a, n,
                                     all_read, Tail(opens), reopens + 1)
             ELSE IF r.n <= 0
                  THEN IF all_read > 0
                       THEN [res |-> "Ok", n |-> all_read, fd |-> m.fd,
                             reopens |-> reopens]
                       ELSE [res |-> "Err", n |-> 0, fd |-> m.fd,
                             reopens |-> reopens]
                  ELSE read_loop(m, is_stopped, a, n, all_read + r.n, opens,
                                 reopens)

\* Task::read_bytes_ptrace: PTRACE_PEEKDATA word by word; the bytes read.
read_bytes_ptrace(m, a, n) ==
    prefix_len(a, n, k_readable(m))

\* read_bytes_fallible(task, addr, buf) with buf.len() = n. The result also
\* names the path taken and holds the bytes placed in buf.
read_bytes_fallible(m, is_stopped, a, n, opens) ==
    LET r == IF n = 0
             THEN [res |-> "Ok", n |-> 0, fd |-> m.fd, reopens |-> 0,
                   path |-> "empty"]
             ELSE IF local_mapping(m, a, n)
             THEN [res |-> "Ok", n |-> n, fd |-> m.fd, reopens |-> 0,
                   path |-> "local"]
             ELSE IF m.fd = "closed"
             THEN [res |-> "Ok", n |-> read_bytes_ptrace(m, a, n), fd |-> m.fd,
                   reopens |-> 0, path |-> "ptrace"]
             ELSE [path |-> "mem_fd"] @@
                  read_loop(m, is_stopped, a, n, 0, opens, 0)
    IN  r @@ [data |-> bytes_at(m, a, r.n)]

\* ----------------------------------------------- safe_pwrite64, write_bytes

\* pwrite_all_fallible on the mem fd: Ok(0) from an fd on a dead address
\* space; otherwise the writable prefix is stored, Err when there is none.
pwrite_all_fallible(m, a, buf, knl_bug) ==
    IF m.fd = "stale" THEN [res |-> "Ok", n |-> 0, m |-> m]
    ELSE LET k == prefix_len(a, Len(buf), k_writable(m, knl_bug))
         IN  IF k = 0 THEN [res |-> "Err", n |-> 0, m |-> m]
             ELSE [res |-> "Ok", n |-> k, m |-> store(m, a, buf, k)]

\* A mutant of mappings_to_fix: every mapping in the range that lacks
\* PROT_WRITE is elevated.
mappings_to_fix_all_unwritable(m, a, n) ==
    {p \in Pages :
        /\ is_mapped(m, p) /\ p \in range(a, n)
        /\ "w" \notin prot_of(m.am[p])}

\* The mappings in the range of the write that safe_pwrite64 elevates: not
\* PROT_WRITE, and not PROT_READ or else MAP_SHARED.
mappings_to_fix(m, a, n) ==
    {p \in Pages :
        /\ is_mapped(m, p) /\ p \in range(a, n)
        /\ "w" \notin prot_of(m.am[p])
        /\ "r" \notin prot_of(m.am[p]) \/ is_shared(m.am[p])}

\* mprotect(m.1 | PROT_WRITE) on each mapping to fix.
elevate_prot(m, fix) ==
    [m EXCEPT !.kprot = [p \in Pages |->
        IF p \in fix THEN prot_of(m.am[p]) \cup {"w"} ELSE @[p]]]

\* A mutant of restore_prot: the elevated protection is left in place.
restore_prot_skipped(m, fix) ==
    m

\* mprotect(m.1) on each mapping to fix.
restore_prot(m, fix) ==
    [m EXCEPT !.kprot = [p \in Pages |->
        IF p \in fix THEN prot_of(m.am[p]) ELSE @[p]]]

safe_pwrite64(m, a, buf, knl_bug) ==
    LET fix == mappings_to_fix(m, a, Len(buf))
        w == pwrite_all_fallible(elevate_prot(m, fix), a, buf, knl_bug)
    IN  [res |-> w.res, n |-> w.n, m |-> restore_prot(w.m, fix), fixed |-> fix]

\* Task::write_bytes_ptrace: PTRACE_POKEDATA word by word; the bytes written.
write_bytes_ptrace(m, a, buf, knl_bug) ==
    prefix_len(a, Len(buf), k_writable(m, knl_bug))

\* write_bytes_helper(task, addr, buf, None, flags), as write_bytes calls it.
\* The result: whether the call returns (no assertion failed), the memory
\* and the mem fd afterwards, the bytes written, the path taken, the
\* mappings safe_pwrite64 elevated, and the open_mem_fd calls made.
RECURSIVE write_bytes_helper(_, _, _, _, _, _, _, _)
write_bytes_helper(m, is_stopped, a, buf, opens, knl_bug, fixed, reopens) ==
    IF Len(buf) = 0
    THEN [returned |-> TRUE, m |-> m, nwritten |-> 0, path |-> "empty",
          fixed |-> fixed, reopens |-> reopens]
    ELSE IF local_mapping(m, a, Len(buf))
    THEN [returned |-> TRUE, m |-> store(m, a, buf, Len(buf)),
          nwritten |-> Len(buf), path |-> "local",
          fixed |-> fixed, reopens |-> reopens]
    ELSE IF m.fd = "closed"
    THEN LET nwritten == write_bytes_ptrace(m, a, buf, knl_bug)
         IN  [returned |-> TRUE, m |-> store(m, a, buf, nwritten),
              nwritten |-> nwritten, path |-> "ptrace",
              fixed |-> fixed, reopens |-> reopens]
    ELSE LET w == safe_pwrite64(m, a, buf, knl_bug)
         IN  IF w.res = "Ok" /\ w.n = 0
             THEN write_bytes_helper(
                      [w.m EXCEPT !.fd = open_mem_fd(is_stopped, Head(opens))],
                      is_stopped, a, buf, Tail(opens), knl_bug,
                      fixed \cup w.fixed, reopens + 1)
             ELSE [returned |-> (w.n = Len(buf)), m |-> w.m, nwritten |-> w.n,
                   path |-> "mem_fd", fixed |-> fixed \cup w.fixed,
                   reopens |-> reopens]

\* --------------------------------------------------------- actions of SpecMem

\* write_bytes(child_addr, buf) on the task.
WriteBytes ==
    /\ ~aborted
    /\ mem.pc = "ready"
    /\ \E a \in Pages, buf \in Bufs, opens \in open_scripts(mem) :
       \E knl_bug \in knl_bug_choices(mem, a, Len(buf)) :
          LET w == write_bytes_helper(mem, tasks[1].is_stopped, a, buf, opens,
                                      knl_bug, {}, 0)
          IN  /\ mem' = [w.m EXCEPT !.last =
                     [op |-> "write", a |-> a, buf |-> buf, n |-> Len(buf),
                      returned |-> w.returned, nwritten |-> w.nwritten,
                      path |-> w.path, fixed |-> w.fixed, reopens |-> w.reopens,
                      kprot_before |-> mem.kprot, fd_before |-> mem.fd]]
              /\ aborted' = ~w.returned
    /\ last_op' = [op |-> "write_bytes", tid |-> 1]
    /\ UNCHANGED <<notMem, tasks, kern, sess>>

\* The read of n bytes at a follows a write_bytes of n bytes at a.
reads_back(last, a, n) ==
    last.op = "write" /\ last.a = a /\ last.n = n /\ n > 0

\* read_bytes_fallible(addr, buf) on the task. The record of the call keeps
\* the bytes of the write_bytes it reads back, if it does.
ReadBytesFallible ==
    /\ ~aborted
    /\ mem.pc = "ready"
    /\ \E a \in Pages, n \in 0 .. MaxLen, opens \in open_scripts(mem) :
          LET r == read_bytes_fallible(mem, tasks[1].is_stopped, a, n, opens)
          IN  mem' = [mem EXCEPT !.fd = r.fd, !.last =
                  [op |-> "read", a |-> a, n |-> n, res |-> r.res,
                   count |-> r.n, data |-> r.data, path |-> r.path,
                   reopens |-> r.reopens, fd_before |-> mem.fd,
                   written |-> IF reads_back(mem.last, a, n)
                               THEN mem.last.buf ELSE <<>>]]
    /\ last_op' = [op |-> "read_bytes_fallible", tid |-> 1]
    /\ UNCHANGED <<notMem, tasks, kern, sess, aborted>>

\* One stopped task over any layout of its address space, with the mem fd closed, open, or opened before an exec.
InitMem ==
    /\ tasks = [t \in Tids |-> InitTask(51, TRUE, FALSE, 1, 1)]
    /\ kern = [t \in Tids |-> InitKern(51, TRUE)]
    /\ sess = [task_map |-> {1}, vm_map |-> {1}, thread_group_map |-> {1},
               is_recording |-> TRUE]
    /\ \E am \in [Pages -> Kinds], fd \in {"closed", "fresh", "stale"} :
          mem = [pc |-> "ready", am |-> am,
                 kprot |-> [p \in Pages |-> prot_of(am[p])],
                 data |-> [p \in Pages |-> 0],
                 fd |-> fd,
                 last |-> [op |-> "init"]]
    /\ aborted = FALSE
    /\ last_op = NoOp
    /\ hist = [t \in Tids |-> InitHist]
    /\ kill = IdleKill
    /\ trap = IdleTrap
    /\ IdleLater

NextMem ==
    \/ WriteBytes
    \/ ReadBytesFallible

SpecMem == InitMem /\ [][NextMem]_vars

\* ------------------------------------------- properties of the memory calls

AfterWrite ==
    mem.pc = "ready" /\ mem.last.op = "write"

AfterRead ==
    mem.pc = "ready" /\ mem.last.op = "read"

\* C6: for a stopped task, after write_bytes(a, b) has returned, reading |b|
\* bytes at a with read_bytes_fallible returns Ok(|b|) and the bytes b,
\* provided the pages of the range are mapped, whichever path is taken.
C6_WriteThenReadRoundTrip ==
    ( /\ AfterRead
      /\ mem.last.written # <<>>
      /\ tasks[1].is_stopped
      /\ \A p \in range(mem.last.a, mem.last.n) : is_mapped(mem, p) )
    => /\ mem.last.res = "Ok"
       /\ mem.last.count = mem.last.n
       /\ mem.last.data = mem.last.written

\* C7: every mapping safe_pwrite64 elevated has, once safe_pwrite64 has
\* returned, exactly the protection it had before the call, whether the
\* write succeeded, failed or was short.
C7_ProtectionRestored ==
    AfterWrite =>
        \A p \in mem.last.fixed : mem.kprot[p] = mem.last.kprot_before[p]

\* C7 happens: a write through safe_pwrite64 was short; it had elevated a
\* PROT_NONE page, wrote the byte on it, and the page is PROT_NONE again.
C7_Witness ==
    /\ AfterWrite
    /\ mem.last.path = "mem_fd"
    /\ mem.last.nwritten > 0 /\ mem.last.nwritten < mem.last.n
    /\ \E p \in mem.last.fixed :
          mem.am[p] = "none" /\ mem.data[p] # 0 /\ mem.kprot[p] = {}

\* A read_bytes_fallible of a non-empty buffer whose first pread64 on the mem
\* fd returned 0 with errno 0.
FirstReadStale ==
    /\ AfterRead
    /\ mem.last.n > 0
    /\ mem.last.path = "mem_fd"
    /\ mem.last.fd_before = "stale"

\* C8 as stated: after a first pread64 of 0 bytes with errno 0 the mem fd is
\* reopened and the call returns the bytes or Err, never Ok(0).
C8_NeverOkZero ==
    FirstReadStale =>
        /\ mem.last.reopens >= 1
        /\ ~(mem.last.res = "Ok" /\ mem.last.count = 0)

\* C8, amended: after a first pread64 of 0 bytes with errno 0 open_mem_fd is
\* called; the call returns Ok(0) exactly when an open_mem_fd failed, and
\* otherwise returns Err or the bytes of the readable prefix of the range.
C8_OkZeroOnlyWhenReopenFails ==
    FirstReadStale =>
        /\ mem.last.reopens >= 1
        /\ (mem.last.res = "Ok" /\ mem.last.count = 0) <=> mem.fd = "closed"
        /\ mem.fd # "closed" =>
              /\ mem.fd = "fresh"
              /\ mem.last.count =
                    prefix_len(mem.last.a, mem.last.n, k_readable(mem))
              /\ mem.last.res = "Err" <=> mem.last.count = 0
              /\ mem.last.data = bytes_at(mem, mem.last.a, mem.last.count)

\* C8 happens: the mem fd was reopened twice within the call, which then
\* returned all the bytes asked for, as they had been written.
C8_Witness ==
    /\ FirstReadStale
    /\ mem.last.reopens = 2
    /\ mem.last.res = "Ok"
    /\ mem.last.count = mem.last.n
    /\ \E i \in 1 .. mem.last.count : mem.last.data[i] # 0

\* ====================================================== compute_trap_reasons

\* The task's ip at the SIGTRAP stop lies up to MaxIpOffset bytes past the
\* address of the last execution resume.
MaxIpOffset == 2

\* What the memory holds at the address of the last execution resume.
Instructions == {"other", "syscall", "cpuid", "int3"}

\* syscall_instruction_length and trapped_instruction_len on x86: int 0x80,
\* sysenter and syscall are 2 bytes, cpuid is 2 bytes, int3 is 1 byte.
instruction_len(insn) ==
    IF insn = "int3" THEN 1 ELSE IF insn \in {"syscall", "cpuid"} THEN 2 ELSE 0

\* decrement_by_bkpt_insn_length: the breakpoint instruction is 1 byte.
decrement_by_bkpt_insn_length(ip) ==
    ip - 1

\* AddressSpace::is_breakpoint_instruction(t, p): the byte at p is the
\* breakpoint instruction. i: the inputs of the classification.
is_breakpoint_instruction(i, p) ==
    IF p = i.addr_last_execution_resume
    THEN i.insn_at_resume = "int3"
    ELSE p = decrement_by_bkpt_insn_length(i.ip) /\ i.bkpt_insn_before_ip

\* The singlestep that the kernel does not report with DS_SINGLESTEP: the
\* last resume was a singlestep and ip is just past a syscall, CPUID or INT3
\* instruction at the resume address.
stepped_over_emulated(i) ==
    /\ i.singlestep_resume
    /\ i.insn_at_resume \in {"syscall", "cpuid", "int3"}
    /\ i.ip = i.addr_last_execution_resume + instruction_len(i.insn_at_resume)

\* notify_watchpoint_fired is called when the debug status has a watchpoint
\* or the singlestep bit; it records the watchpoints that fired and the
\* write-watchpoints whose value changed, for has_any_watchpoint_changes.
has_any_watchpoint_changes(i) ==
    /\ i.ds_watchpoint \/ i.ds_singlestep
    /\ i.ds_watchpoint \/ i.watched_value_changed

\* A mutant of breakpoint_after_singlestep: a singlestep never also reports
\* a breakpoint.
breakpoint_after_singlestep_never(i) ==
    FALSE

\* With singlestep set, breakpoint says whether the resume address holds a
\* breakpoint instruction.
breakpoint_after_singlestep(i) ==
    is_breakpoint_instruction(i, i.addr_last_execution_resume)

\* A mutant of breakpoint_from_siginfo: the siginfo is believed only when a
\* breakpoint instruction lies before ip.
breakpoint_from_siginfo_checked(i) ==
    /\ i.si_code_kernel_trap
    /\ is_breakpoint_instruction(i, decrement_by_bkpt_insn_length(i.ip))

\* Neither singlestep nor watchpoint: breakpoint is is_kernel_trap(si_code).
breakpoint_from_siginfo(i) ==
    i.si_code_kernel_trap

\* compute_trap_reasons(t). The result: the TrapReasons, and whether an
\* assertion failed on the way.
compute_trap_reasons(i) ==
    LET singlestep == i.ds_singlestep \/ stepped_over_emulated(i)
        watchpoint == has_any_watchpoint_changes(i) \/ i.ds_watchpoint
        ip_at_breakpoint == decrement_by_bkpt_insn_length(i.ip)
        breakpoint ==
            IF singlestep THEN breakpoint_after_singlestep(i)
            ELSE IF watchpoint
            THEN i.exec_watchpoint_fired
                 /\ is_breakpoint_instruction(i, ip_at_breakpoint)
            ELSE breakpoint_from_siginfo(i)
        assert_ok ==
            IF singlestep
            THEN breakpoint => i.addr_last_execution_resume = ip_at_breakpoint
            ELSE IF watchpoint THEN TRUE
            ELSE breakpoint => is_breakpoint_instruction(i, ip_at_breakpoint)
    IN  [singlestep |-> singlestep, watchpoint |-> watchpoint,
         breakpoint |-> breakpoint, abort |-> ~assert_ok]

\* Every SIGTRAP stop within the bounds: the debug status bits, how and
\* where the task was last resumed and what instruction is there, where it
\* stopped, what the watchpoints and the siginfo say.
TrapInputs ==
    [ds_singlestep : BOOLEAN, ds_watchpoint : BOOLEAN,
     singlestep_resume : BOOLEAN,
     addr_last_execution_resume : {4},
     insn_at_resume : Instructions,
     ip : 4 .. (4 + MaxIpOffset),
     bkpt_insn_before_ip : BOOLEAN,
     watched_value_changed : BOOLEAN,
     exec_watchpoint_fired : BOOLEAN,
     si_code_kernel_trap : BOOLEAN]

InitTrap ==
    /\ \E i \in TrapInputs : trap = [pc |-> "stopped", in |-> i]
    /\ tasks = [t \in Tids |-> InitTask(51, TRUE, FALSE, 1, 1)]
    /\ kern = [t \in Tids |-> InitKern(51, TRUE)]
    /\ sess = [task_map |-> {1}, vm_map |-> {1}, thread_group_map |-> {1},
               is_recording |-> TRUE]
    /\ aborted = FALSE
    /\ last_op = NoOp
    /\ hist = [t \in Tids |-> InitHist]
    /\ kill = IdleKill
    /\ mem = IdleMem
    /\ IdleLater

ComputeTrapReasons ==
    /\ ~aborted
    /\ trap.pc = "stopped"
    /\ LET r == compute_trap_reasons(trap.in)
       IN  /\ trap' = [pc |-> "classified", in |-> trap.in,
                       reasons |-> [singlestep |-> r.singlestep,
                                    watchpoint |-> r.watchpoint,
                                    breakpoint |-> r.breakpoint]]
           /\ aborted' = r.abort
    /\ last_op' = [op |-> "compute_trap_reasons", tid |-> 1]
    /\ UNCHANGED notTrap

NextTrap ==
    ComputeTrapReasons

SpecTrap == InitTrap /\ [][NextTrap]_vars

\* ------------------------------------------ properties of the classification

Classified ==
    trap.pc = "classified" /\ ~aborted

ReasonCount(r) ==
    (IF r.singlestep THEN 1 ELSE 0) + (IF r.watchpoint THEN 1 ELSE 0)
        + (IF r.breakpoint THEN 1 ELSE 0)

\* What the stop indicates: a completed singlestep (DS_SINGLESTEP, or a step
\* over a syscall, CPUID or INT3 instruction), a watchpoint (a DS watchpoint
\* bit, or a changed watched value found while handling DS_SINGLESTEP), a
\* breakpoint (a kernel-trap si_code).
SinglestepIndicated(i) ==
    i.ds_singlestep \/ stepped_over_emulated(i)

WatchpointIndicated(i) ==
    i.ds_watchpoint \/ (i.ds_singlestep /\ i.watched_value_changed)

BreakpointIndicated(i) ==
    i.si_code_kernel_trap

IndicationCount(i) ==
    (IF SinglestepIndicated(i) THEN 1 ELSE 0)
        + (IF WatchpointIndicated(i) THEN 1 ELSE 0)
        + (IF BreakpointIndicated(i) THEN 1 ELSE 0)

\* C10 as stated: for a SIGTRAP stop without concurrent events (at most one
\* of singlestep, watchpoint, breakpoint is indicated), exactly one of
\* singlestep, watchpoint, breakpoint is true in the TrapReasons.
C10_ExactlyOneReason ==
    Classified /\ IndicationCount(trap.in) <= 1 =>
        ReasonCount(trap.reasons) = 1

\* The stops in which one indication yields two reasons: a singlestep from
\* an address that holds a breakpoint instruction, and a watchpoint stop
\* whose exec watchpoint fired at a breakpoint instruction just before ip.
TwoReasonsFromOne(i) ==
    \/ /\ SinglestepIndicated(i)
       /\ is_breakpoint_instruction(i, i.addr_last_execution_resume)
    \/ /\ ~SinglestepIndicated(i)
       /\ WatchpointIndicated(i)
       /\ i.exec_watchpoint_fired
       /\ is_breakpoint_instruction(i, decrement_by_bkpt_insn_length(i.ip))

\* C10, amended: the TrapReasons follow the indications. With no indication
\* (a SIGTRAP that is none of the three) none of singlestep, watchpoint,
\* breakpoint is true; with exactly one indication exactly one is true,
\* except that breakpoint is true as well for a singlestep from a breakpoint
\* instruction and for an exec watchpoint at a breakpoint instruction.
C10_ReasonsFollowIndications ==
    Classified =>
        LET i == trap.in
            r == trap.reasons
        IN  /\ r.singlestep <=> SinglestepIndicated(i)
            /\ r.watchpoint <=> WatchpointIndicated(i)
            /\ IndicationCount(i) = 0 => ReasonCount(r) = 0
            /\ IndicationCount(i) = 1 =>
                  ReasonCount(r) = IF TwoReasonsFromOne(i) THEN 2 ELSE 1
            /\ TwoReasonsFromOne(i) => r.breakpoint

\* C10 happens: a stop with the one indication of a completed singlestep
\* over an ordinary instruction was classified as a singlestep only.
C10_Witness ==
    /\ Classified
    /\ IndicationCount(trap.in) = 1
    /\ trap.in.ds_singlestep /\ trap.in.singlestep_resume
    /\ trap.in.insn_at_resume = "other"
    /\ trap.reasons.singlestep
    /\ ReasonCount(trap.reasons) = 1

\* ------------------------------------------------ singlestep workarounds
\* One task driven through resume_execution and did_waitpid, with the state
\* the CPU workarounds use: the cached and the kernel's ip and rcx, the
\* instruction at ip, the internal breakpoints, the word on top of the stack
\* and the tick counter.

\* Number of resume_execution calls on the task.
MaxResumes == 2

single_step_coalesce_cutoff == 16

X86_TF_FLAG == 256

MAX_TICKS_REQUEST == 2000000000

TrappedInstruction == {"None", "CpuId", "Pushf", "Pushf16", "String"}

trapped_instruction_len(ti) ==
    CASE ti = "CpuId" -> 2
      [] ti = "Pushf" -> 1
      [] ti = "Pushf16" -> 2
      [] OTHER -> 0

increment_by_bkpt_insn_length(addr) ==
    addr + 1

ResumeRequests == {"ResumeCont", "ResumeSinglestep"}

is_singlestep_resume(how) ==
    how = "ResumeSinglestep"

TicksRequests ==
    {[kind |-> "ResumeNoTicks", tr |-> 0],
     [kind |-> "ResumeUnlimitedTicks", tr |-> 0]}
        \cup {[kind |-> "ResumeWithTicksRequest", tr |-> k] :
                 k \in {0, 1, MAX_TICKS_REQUEST, MAX_TICKS_REQUEST + 1}}

\* Values of rcx at the first resume, on both sides of the cutoff.
CxValues == {3, 16, 17, 20}

\* 16-bit words the tracee pushes: EFLAGS images with and without TF.
Words == {2, 258, 838, 65535}

NoStop ==
    [kind |-> "none", ds_singlestep |-> FALSE, kernel_trap |-> FALSE,
     hit_bkpt |-> FALSE]

NoStackWrite ==
    [done |-> FALSE, old |-> 0, new |-> 0]

NoReasons ==
    [done |-> FALSE, singlestep |-> FALSE, watchpoint |-> FALSE,
     breakpoint |-> FALSE]

InitStepTask(insn, cx, knl) ==
    [pc |-> "stopped", is_stopped |-> TRUE,
     regs |-> [ip |-> 0, cx |-> cx], registers_dirty |-> FALSE,
     k |-> [ip |-> 0, cx |-> cx],
     insn |-> insn, knl |-> knl,
     last_resume_orig_cx |-> 0,
     singlestepping_instruction |-> "None",
     did_set_breakpoint_after_cpuid |-> FALSE,
     detected_unexpected_exit |-> FALSE,
     seen_ptrace_exit_event |-> FALSE,
     vanished |-> FALSE,
     bkpts |-> {},
     address_of_last_execution_resume |-> 0,
     how_last_execution_resumed |-> "ResumeCont",
     stack_word |-> 2,
     hpc |-> [counting |-> FALSE, period |-> 0],
     resumes |-> 0, ptrace_resumes |-> 0,
     at_resume |-> [cx |-> cx, insn |-> insn, flushed_cx |-> cx,
                    tick |-> [kind |-> "ResumeNoTicks", tr |-> 0],
                    ptrace_resumes |-> 0],
     stop |-> NoStop, stack_write |-> NoStackWrite, reasons |-> NoReasons]

\* ---- resume_execution: ticks, KNL fudge, breakpoint after CPUID, flush

ticks_assert_ok_always(tick) ==
    TRUE

ticks_assert_ok(tick) ==
    tick.kind = "ResumeWithTicksRequest" =>
        tick.tr >= 1 /\ tick.tr <= MAX_TICKS_REQUEST

hpc_reset(hpc, tick) ==
    IF tick.kind = "ResumeNoTicks" THEN hpc
    ELSE [counting |-> TRUE, period |-> tick.tr]

trapped_instruction_at(s) ==
    s.insn

at_x86_string_instruction(s) ==
    s.insn = "String"

knl_fudge(s) ==
    /\ s.knl
    /\ s.regs.cx > single_step_coalesce_cutoff
    /\ at_x86_string_instruction(s)

work_around_knl_string_singlestep_bug(s) ==
    IF knl_fudge(s)
    THEN [s EXCEPT !.last_resume_orig_cx = s.regs.cx,
                   !.regs.cx = single_step_coalesce_cutoff,
                   !.registers_dirty = TRUE]
    ELSE s

set_breakpoint_after_cpuid(s) ==
    IF s.singlestepping_instruction = "CpuId"
    THEN [s EXCEPT !.bkpts = @ \cup
                       {s.regs.ip + trapped_instruction_len("CpuId")},
                   !.did_set_breakpoint_after_cpuid = TRUE]
    ELSE s

\* The state after resume_execution(how, _, tick, _) returned; wait_ret is
\* what the WNOHANG probe answered (positive: the tracee has already exited
\* and no ptrace request is issued).
resume_execution_fixups(s, how, tick, wait_ret) ==
    LET s1 == [s EXCEPT !.hpc = hpc_reset(@, tick),
                        !.address_of_last_execution_resume = s.regs.ip,
                        !.how_last_execution_resumed = how]
        s2 == IF is_singlestep_resume(how)
              THEN LET w == work_around_knl_string_singlestep_bug(s1)
                   IN  set_breakpoint_after_cpuid(
                           [w EXCEPT !.singlestepping_instruction =
                                         trapped_instruction_at(w)])
              ELSE s1
        s3 == [s2 EXCEPT !.k = IF s2.registers_dirty THEN s2.regs ELSE @,
                         !.registers_dirty = FALSE]
    IN  [s3 EXCEPT !.detected_unexpected_exit = @ \/ wait_ret > 0,
                   !.ptrace_resumes = IF wait_ret > 0 THEN @ ELSE @ + 1,
                   !.is_stopped = FALSE,
                   !.pc = "running",
                   !.resumes = @ + 1,
                   !.at_resume = [cx |-> s.regs.cx, insn |-> s.insn,
                                  flushed_cx |-> s3.k.cx, tick |-> tick,
                                  ptrace_resumes |-> s.ptrace_resumes],
                   !.stop = NoStop,
                   !.stack_write = NoStackWrite,
                   !.reasons = NoReasons]

\* ---- did_waitpid: the fixups after a stop that is not an exit event

unfudge_assert_ok(s) ==
    s.last_resume_orig_cx # 0 =>
        s.regs.cx \in {single_step_coalesce_cutoff - 1,
                       single_step_coalesce_cutoff}

unfudge_cx_skipped(s) ==
    s

unfudge_cx(s) ==
    IF s.last_resume_orig_cx # 0
    THEN [s EXCEPT !.regs.cx = s.last_resume_orig_cx
                                   - single_step_coalesce_cutoff + s.regs.cx,
                   !.registers_dirty = TRUE]
    ELSE s

cpuid_fixup_keeps_ip(s) ==
    [s EXCEPT !.did_set_breakpoint_after_cpuid = FALSE,
              !.bkpts = @ \ {s.address_of_last_execution_resume
                               + trapped_instruction_len(
                                     s.singlestepping_instruction)}]

cpuid_fixup(s) ==
    IF s.did_set_breakpoint_after_cpuid
    THEN LET bkpt_addr == s.address_of_last_execution_resume
                            + trapped_instruction_len(
                                  s.singlestepping_instruction)
             at_bkpt == s.regs.ip = increment_by_bkpt_insn_length(bkpt_addr)
         IN  [s EXCEPT !.regs.ip = IF at_bkpt THEN bkpt_addr ELSE @,
                       !.registers_dirty = IF at_bkpt THEN TRUE ELSE @,
                       !.bkpts = @ \ {bkpt_addr},
                       !.did_set_breakpoint_after_cpuid = FALSE]
    ELSE s

clear_tf_clears_word(val) ==
    0

clear_tf(val) ==
    val - ((val \div X86_TF_FLAG) % 2) * X86_TF_FLAG

pushf_fixup(s) ==
    IF /\ s.singlestepping_instruction \in {"Pushf", "Pushf16"}
       /\ s.regs.ip = s.address_of_last_execution_resume
                        + trapped_instruction_len(
                              s.singlestepping_instruction)
    THEN [s EXCEPT !.stack_word = clear_tf(@),
                   !.stack_write = [done |-> TRUE, old |-> s.stack_word,
                                    new |-> clear_tf(s.stack_word)]]
    ELSE s

\* A mutant of forget_singlestep: the instruction stays remembered.
forget_singlestep_skipped(s) ==
    s

\* singlestepping_instruction = TrappedInstruction::None.
forget_singlestep(s) ==
    [s EXCEPT !.singlestepping_instruction = "None"]

\* A mutant of mark_exit_event: the exit event is not remembered.
mark_exit_event_skipped(s) ==
    s

\* status is PTRACE_EVENT_EXIT: seen_ptrace_exit_event = true.
mark_exit_event(s) ==
    [s EXCEPT !.seen_ptrace_exit_event = TRUE]

\* did_waitpid on the reported stop; alive is whether PTRACE_GETSIGINFO and
\* PTRACE_GETREGS still find the tracee. Returns the task and whether an
\* ed_assert! failed.
did_waitpid_fixups(s, alive) ==
    LET exit == s.stop.kind = "exit" \/ ~alive
        s1 == [s EXCEPT !.regs = IF ~s.is_stopped /\ alive THEN s.k ELSE @,
                        !.is_stopped = TRUE,
                        !.hpc.counting = FALSE,
                        !.stop.kind = IF exit THEN "exit" ELSE @]
        s2 == [unfudge_cx(s1) EXCEPT !.last_resume_orig_cx = 0]
        s3 == forget_singlestep(pushf_fixup(cpuid_fixup(s2)))
    IN  IF exit
        THEN [s |-> [mark_exit_event(s1) EXCEPT !.pc = "exited"],
              abort |-> FALSE]
        ELSE IF s.registers_dirty \/ ~unfudge_assert_ok(s1)
        THEN [s |-> [s1 EXCEPT !.pc = "stopped"], abort |-> TRUE]
        ELSE [s |-> [s3 EXCEPT !.pc = "stopped"], abort |-> FALSE]

\* ---- the tracee between the resume and the stop

Stop(kind, ds, kt, hit) ==
    [kind |-> kind, ds_singlestep |-> ds, kernel_trap |-> kt, hit_bkpt |-> hit]

\* What the tracee can have done when it stops: [k, stop, stack_word]. It
\* can always be found exiting, or be stopped by a signal before it runs.
tracee_outcomes(s) ==
    LET A == s.k.ip
        Out(ip, cx, stop, word) ==
            [k |-> [ip |-> ip, cx |-> cx], stop |-> stop, stack_word |-> word]
        exiting == {Out(A, s.k.cx, Stop("exit", FALSE, FALSE, FALSE),
                        s.stack_word)}
        signalled == {Out(A, s.k.cx, Stop("signal", FALSE, FALSE, FALSE),
                          s.stack_word)}
        stepped ==
            CASE s.insn = "None" ->
                   {Out(A + 1, s.k.cx, Stop("SIGTRAP", TRUE, FALSE, FALSE),
                        s.stack_word)}
              [] s.insn = "CpuId" ->
                   \* the step ends after CPUID, or (KVM) after the
                   \* instruction that follows it
                   {Out(A + 2, s.k.cx, Stop("SIGTRAP", ds, FALSE, FALSE),
                        s.stack_word) : ds \in BOOLEAN}
                   \cup
                   IF A + 2 \in s.bkpts
                   THEN {Out(A + 3, s.k.cx, Stop("SIGTRAP", ds, TRUE, TRUE),
                             s.stack_word) : ds \in BOOLEAN}
                   ELSE {Out(A + 3, s.k.cx, Stop("SIGTRAP", TRUE, FALSE, FALSE),
                             s.stack_word)}
              [] s.insn \in {"Pushf", "Pushf16"} ->
                   {Out(A + trapped_instruction_len(s.insn), s.k.cx,
                        Stop("SIGTRAP", TRUE, FALSE, FALSE), w) : w \in Words}
              [] OTHER ->
                   \* a string instruction runs zero, one or two iterations
                   {Out(IF s.k.cx - n = 0 THEN A + 2 ELSE A, s.k.cx - n,
                        Stop("SIGTRAP", TRUE, FALSE, FALSE), s.stack_word) :
                      n \in {m \in 0 .. 2 : m <= s.k.cx}}
        continued == {Out(A + 1, s.k.cx, Stop("signal", FALSE, FALSE, FALSE),
                          s.stack_word)}
    IN  IF s.detected_unexpected_exit THEN exiting
        ELSE exiting \cup signalled \cup
             (IF is_singlestep_resume(s.how_last_execution_resumed)
              THEN stepped ELSE continued)

\* ---- actions of SpecStep

StepResume(how, tick, wait_ret) ==
    /\ ~aborted
    /\ step.pc = "stopped"
    /\ step.resumes < MaxResumes
    /\ IF ticks_assert_ok(tick)
       THEN /\ step' = resume_execution_fixups(step, how, tick, wait_ret)
            /\ aborted' = FALSE
       ELSE /\ step' = [step EXCEPT !.at_resume.tick = tick,
                                     !.at_resume.ptrace_resumes =
                                         step.ptrace_resumes]
            /\ aborted' = TRUE
    /\ last_op' = [op |-> "resume_execution", tid |-> 1]
    /\ UNCHANGED notStep

StepTraceeStops ==
    /\ ~aborted
    /\ step.pc = "running"
    /\ \E o \in tracee_outcomes(step) : \E ni \in TrappedInstruction :
          /\ o.k.ip = step.k.ip => ni = step.insn
          /\ step' = [step EXCEPT !.pc = "reported", !.k = o.k,
                                  !.stop = o.stop,
                                  !.stack_word = o.stack_word,
                                  !.insn = ni]
    /\ last_op' = [op |-> "tracee_stop", tid |-> 1]
    /\ UNCHANGED <<aborted, notStep>>

StepDidWaitpid ==
    /\ ~aborted
    /\ step.pc = "reported"
    /\ \E alive \in BOOLEAN : \E ni \in TrappedInstruction :
          LET r == did_waitpid_fixups(step, alive)
          IN  /\ r.s.regs.ip = step.k.ip => ni = step.insn
              /\ step' = [r.s EXCEPT !.insn = ni, !.vanished = ~alive]
              /\ aborted' = r.abort
    /\ last_op' = [op |-> "did_waitpid", tid |-> 1]
    /\ UNCHANGED notStep

\* The stop as compute_trap_reasons sees it (no watchpoints are set).
trap_input_of(s) ==
    [ds_singlestep |-> s.stop.ds_singlestep,
     ds_watchpoint |-> FALSE,
     singlestep_resume |-> is_singlestep_resume(s.how_last_execution_resumed),
     addr_last_execution_resume |-> s.address_of_last_execution_resume,
     insn_at_resume |-> IF s.at_resume.insn = "CpuId" THEN "cpuid" ELSE "other",
     ip |-> s.regs.ip,
     bkpt_insn_before_ip |-> decrement_by_bkpt_insn_length(s.regs.ip) \in s.bkpts,
     watched_value_changed |-> FALSE,
     exec_watchpoint_fired |-> FALSE,
     si_code_kernel_trap |-> s.stop.kernel_trap]

StepComputeTrapReasons ==
    /\ ~aborted
    /\ step.pc = "stopped"
    /\ step.stop.kind = "SIGTRAP"
    /\ ~step.reasons.done
    /\ LET r == compute_trap_reasons(trap_input_of(step))
       IN  /\ step' = [step EXCEPT !.reasons =
                           [done |-> TRUE, singlestep |-> r.singlestep,
                            watchpoint |-> r.watchpoint,
                            breakpoint |-> r.breakpoint]]
           /\ aborted' = r.abort
    /\ last_op' = [op |-> "compute_trap_reasons", tid |-> 1]
    /\ UNCHANGED notStep

InitStep ==
    /\ \E insn \in TrappedInstruction, cx \in CxValues, knl \in BOOLEAN :
          step = InitStepTask(insn, cx, knl)
    /\ tasks = [t \in Tids |-> InitTask(51, TRUE, FALSE, 1, 1)]
    /\ kern = [t \in Tids |-> InitKern(51, TRUE)]
    /\ sess = [task_map |-> {1}, vm_map |-> {1}, thread_group_map |-> {1},
               is_recording |-> TRUE]
    /\ aborted = FALSE
    /\ last_op = NoOp
    /\ hist = [t \in Tids |-> InitHist]
    /\ kill = IdleKill
    /\ mem = IdleMem
    /\ trap = IdleTrap
    /\ exec = IdleExec
    /\ cstr = IdleCStr
    /\ drop = IdleDrop
    /\ clone = IdleClone
    /\ refl = IdleRefl
    /\ intr = IdleIntr

NextStep ==
    \/ \E how \in ResumeRequests, tick \in TicksRequests, wait_ret \in {0, 1} :
          StepResume(how, tick, wait_ret)
    \/ StepTraceeStops
    \/ StepDidWaitpid
    \/ StepComputeTrapReasons

SpecStep == InitStep /\ [][NextStep]_vars

\* ------------------------------------ properties of the singlestep workarounds

AfterStepResume ==
    last_op.op = "resume_execution" /\ step.pc = "running"

AfterStepDidWaitpid ==
    last_op.op = "did_waitpid" /\ step.pc = "stopped" /\ ~aborted

SteppedAt(insns) ==
    /\ is_singlestep_resume(step.how_last_execution_resumed)
    /\ step.at_resume.insn \in insns

BkptAfterCpuid ==
    step.address_of_last_execution_resume + trapped_instruction_len("CpuId")

\* C11: a singlestep resume at a CPUID instruction installs an internal
\* breakpoint at ip + len(cpuid); when the task stops having hit that
\* breakpoint, did_waitpid sets ip to ip + len(cpuid), removes the breakpoint
\* and clears did_set_breakpoint_after_cpuid, and compute_trap_reasons on
\* that stop yields singlestep = true and breakpoint = false.
C11_CpuidBreakpointCaught ==
    /\ AfterStepResume /\ SteppedAt({"CpuId"}) =>
          /\ BkptAfterCpuid \in step.bkpts
          /\ step.did_set_breakpoint_after_cpuid
    /\ /\ last_op.op \in {"did_waitpid", "compute_trap_reasons"}
       /\ step.pc = "stopped"
       /\ step.stop.hit_bkpt
       =>
          /\ ~aborted
          /\ step.regs.ip = BkptAfterCpuid
          /\ BkptAfterCpuid \notin step.bkpts
          /\ ~step.did_set_breakpoint_after_cpuid
          /\ step.reasons.done =>
                step.reasons.singlestep /\ ~step.reasons.breakpoint

\* C11 happens: the step ran past CPUID into the internal breakpoint without
\* DS_SINGLESTEP, and the stop was classified.
C11_Witness ==
    /\ step.pc = "stopped"
    /\ step.stop.hit_bkpt
    /\ ~step.stop.ds_singlestep
    /\ step.k.ip = BkptAfterCpuid + 1
    /\ step.regs.ip = BkptAfterCpuid
    /\ step.reasons.done
    /\ step.reasons.singlestep

Fudged ==
    /\ SteppedAt({"String"})
    /\ step.knl
    /\ step.at_resume.cx > single_step_coalesce_cutoff

\* C12: on a CPU with the KNL quirk, a singlestep resume at a string
\* instruction with rcx = c > 16 flushes rcx = 16 to the kernel and keeps c in
\* last_resume_orig_cx; at the next stop that is not an exit the kernel's rcx
\* n must be 15 or 16 (else a fatal assertion), the cached rcx becomes
\* c - 16 + n and last_resume_orig_cx is 0 again. In every other resume rcx
\* is not altered.
C12_KnlFudge ==
    /\ AfterStepResume =>
          IF Fudged
          THEN /\ step.at_resume.flushed_cx = 16
               /\ step.k.cx = 16
               /\ step.last_resume_orig_cx = step.at_resume.cx
          ELSE /\ step.at_resume.flushed_cx = step.at_resume.cx
               /\ step.last_resume_orig_cx = 0
    /\ last_op.op = "did_waitpid" /\ step.pc = "stopped" =>
          IF Fudged
          THEN /\ aborted <=> step.k.cx \notin {15, 16}
               /\ ~aborted =>
                     /\ step.regs.cx = step.at_resume.cx - 16 + step.k.cx
                     /\ step.last_resume_orig_cx = 0
          ELSE /\ ~aborted
               /\ step.regs.cx = step.k.cx
               /\ step.last_resume_orig_cx = 0

\* C12 happens: rcx = 20 was fudged, the step ran one iteration, and
\* did_waitpid restored rcx to 19.
C12_Witness ==
    /\ AfterStepDidWaitpid
    /\ Fudged
    /\ step.at_resume.cx = 20
    /\ step.k.cx = 15
    /\ step.regs.cx = 19

SteppedThroughPushf ==
    /\ SteppedAt({"Pushf", "Pushf16"})
    /\ step.stop.kind # "exit"
    /\ step.regs.ip = step.address_of_last_execution_resume
                        + trapped_instruction_len(step.at_resume.insn)

\* C13: after a singlestep resume at pushf or pushfw, if the task stops at
\* the resume address + the length of the instruction, did_waitpid rewrites
\* the 16-bit word at SP with bit 0x100 cleared and every other bit as it
\* was; if the stop is elsewhere or an exit event, the word is not written.
C13_PushfTfScrub ==
    last_op.op = "did_waitpid" /\ ~aborted =>
        IF SteppedThroughPushf
        THEN /\ step.stack_write.done
             /\ step.stack_word = step.stack_write.new
             /\ (step.stack_write.new \div 256) % 2 = 0
             /\ step.stack_write.new % 256 = step.stack_write.old % 256
             /\ step.stack_write.new \div 512 = step.stack_write.old \div 512
        ELSE ~step.stack_write.done

\* C13 happens: pushfw pushed 0x0346 and did_waitpid left 0x0246.
C13_Witness ==
    /\ AfterStepDidWaitpid
    /\ step.at_resume.insn = "Pushf16"
    /\ step.stack_write.done
    /\ step.stack_write.old = 838
    /\ step.stack_word = 582

BadTicksRequest(tick) ==
    /\ tick.kind = "ResumeWithTicksRequest"
    /\ (tick.tr = 0 \/ tick.tr > MAX_TICKS_REQUEST)

\* C17: resume_execution with ResumeWithTicksRequest(k) fails a fatal
\* assertion for k = 0 and for k > MAX_TICKS_REQUEST, with no ptrace resume
\* request issued and the task still marked stopped; for
\* 1 <= k <= MAX_TICKS_REQUEST the counter is armed with exactly k.
C17_TicksRequestChecked ==
    last_op.op = "resume_execution" =>
        IF BadTicksRequest(step.at_resume.tick)
        THEN /\ aborted
             /\ step.is_stopped
             /\ step.ptrace_resumes = step.at_resume.ptrace_resumes
        ELSE /\ ~aborted
             /\ step.at_resume.tick.kind = "ResumeWithTicksRequest" =>
                   /\ step.hpc.counting
                   /\ step.hpc.period = step.at_resume.tick.tr

\* C17 happens: a request of MAX_TICKS_REQUEST + 1 ticks ended the tracer.
C17_Witness ==
    /\ last_op.op = "resume_execution"
    /\ aborted
    /\ step.at_resume.tick.tr = MAX_TICKS_REQUEST + 1
    /\ step.is_stopped

\* -------------------------------------------------------------- post_exec
\* The tasks of a session with their address spaces and fd tables, and one
\* task completing an exec.

\* The buffers a task has set up in the tracee: none, the scratch region
\* only, or the scratch region and the syscallbuf.
BufferLayouts == {"none", "scratch", "syscallbuf"}

BufferFields(tid, layout) ==
    [syscallbuf_child |-> IF layout = "syscallbuf" THEN 16 * tid ELSE 0,
     syscallbuf_size |-> IF layout = "syscallbuf" THEN 4 ELSE 0,
     scratch_ptr |-> IF layout = "none" THEN 0 ELSE 16 * tid + 8,
     scratch_size |-> IF layout = "none" THEN 0 ELSE 2,
     desched_fd_child |-> IF layout = "syscallbuf" THEN 5 ELSE -1,
     cloned_file_data_fd_child |-> IF layout = "syscallbuf" THEN 6 ELSE -1,
     preload_globals |-> IF layout = "syscallbuf" THEN "Some" ELSE "None"]

ExecTask(tid, layout, stopped, as, fds) ==
    [is_stopped |-> stopped, as |-> as, fds |-> fds,
     buf |-> BufferFields(tid, layout)]

\* unmap_buffers_for: the remote munmap calls, in the order they are made.
\* The arguments after the task are other_saved_syscallbuf_child,
\* other_syscallbuf_size, other_scratch_ptr and other_scratch_size.
unmap_buffers_for(via, sb_child, sb_size, scratch_ptr, scratch_size) ==
    (IF scratch_ptr # 0
     THEN <<[via |-> via, addr |-> scratch_ptr, len |-> scratch_size]>>
     ELSE <<>>)
    \o
    (IF sb_child # 0
     THEN <<[via |-> via, addr |-> sb_child, len |-> sb_size]>>
     ELSE <<>>)

\* The tasks post_exec_for_exe can pick to make the remote calls: the
\* stopped tasks of t's address space other than t (the first one the
\* iteration over the task set meets).
stopped_tasks_in_address_space(e, t) ==
    {o \in e.as[e.tk[t].as].task_set \ {t} : e.tk[o].is_stopped}

\* The buffers handed to unmap_buffers_for: `t` is rebound to the stopped
\* task before the fields are read.
buffers_to_unmap(e, t, stopped_task) ==
    e.tk[stopped_task].buf

clear_buffer_bookkeeping_none(buf) ==
    buf

clear_buffer_bookkeeping(buf) ==
    [buf EXCEPT !.syscallbuf_child = 0,
                !.syscallbuf_size = 0,
                !.scratch_ptr = 0,
                !.cloned_file_data_fd_child = -1,
                !.preload_globals = "None"]

next_exec_count_same(old_vm) ==
    old_vm.exec_count

next_exec_count(old_vm) ==
    old_vm.exec_count + 1

\* Session::create_vm: a new address space with the given exec count whose
\* only task is t.
create_vm(t, exec_count) ==
    [exec_count |-> exec_count, task_set |-> {t}]

\* FdTable::clone_into_task: a copy of the table whose only task is t.
clone_into_task(old_fds, t) ==
    [task_set |-> {t}, cloned_from |-> old_fds]

\* Whether post_exec_for_exe logs that it leaks the buffers: no task was
\* found stopped, and the iteration met another task of the address space.
leak_warning_without_cotenant(e, t, stopped_task) ==
    stopped_task = 0

leak_warning(e, t, stopped_task) ==
    stopped_task = 0 /\ e.as[e.tk[t].as].task_set \ {t} # {}

\* post_exec_for_exe(t, _); stopped_task is 0 when no other task of the
\* address space is stopped.
post_exec_for_exe(e, t, stopped_task) ==
    LET old_as == e.tk[t].as
        old_fds == e.tk[t].fds
        b == IF stopped_task # 0 THEN buffers_to_unmap(e, t, stopped_task)
             ELSE e.tk[t].buf
        calls == IF stopped_task # 0
                 THEN unmap_buffers_for(stopped_task, b.syscallbuf_child,
                                        b.syscallbuf_size, b.scratch_ptr,
                                        b.scratch_size)
                 ELSE <<>>
        new_as == Cardinality(DOMAIN e.as) + 1
        new_fds == Cardinality(DOMAIN e.fdt) + 1
        as1 == [e.as EXCEPT ![old_as].task_set = @ \ {t}]
        fdt1 == [e.fdt EXCEPT ![old_fds].task_set = @ \ {t}]
    IN  [e EXCEPT
           !.pc = "done",
           !.t = t,
           !.via = stopped_task,
           !.munmaps = calls,
           !.warned = leak_warning(e, t, stopped_task),
           !.pre = e.tk,
           !.pre_as = e.as,
           !.pre_fdt = e.fdt,
           !.as = as1 @@ (new_as :> create_vm(t, next_exec_count(e.as[old_as]))),
           !.fdt = fdt1 @@ (new_fds :> clone_into_task(old_fds, t)),
           !.tk[t].buf = clear_buffer_bookkeeping(@),
           !.tk[t].as = new_as,
           !.tk[t].fds = new_fds]

\* ---- actions of SpecExec

PostExec(t) ==
    /\ ~aborted
    /\ exec.pc = "before"
    /\ exec.tk[t].is_stopped
    /\ LET stopped == stopped_tasks_in_address_space(exec, t)
       IN  \E stopped_task \in (IF stopped = {} THEN {0} ELSE stopped) :
              exec' = post_exec_for_exe(exec, t, stopped_task)
    /\ last_op' = [op |-> "post_exec", tid |-> t]
    /\ UNCHANGED <<aborted, notExec>>

InitExec ==
    /\ \E layout \in [Tids -> BufferLayouts], stopped \in [Tids -> BOOLEAN],
          as \in [Tids -> {1, 2}], fds \in [Tids -> {1, 2}],
          exec_count \in {0, 1} :
          LET tk == [t \in Tids |->
                        ExecTask(t, layout[t], stopped[t], as[t], fds[t])]
              vms == [a \in {1, 2} |->
                        [exec_count |-> IF a = 1 THEN exec_count ELSE 0,
                         task_set |-> {t \in Tids : as[t] = a}]]
              fdt == [f \in {1, 2} |->
                        [task_set |-> {t \in Tids : fds[t] = f},
                         cloned_from |-> 0]]
          IN  exec = [pc |-> "before", t |-> 0, via |-> 0, munmaps |-> <<>>,
                      warned |-> FALSE,
                      tk |-> tk, as |-> vms, fdt |-> fdt,
                      pre |-> tk, pre_as |-> vms, pre_fdt |-> fdt]
    /\ tasks = [t \in Tids |-> InitTask(51, TRUE, FALSE, 1, 1)]
    /\ kern = [t \in Tids |-> InitKern(51, TRUE)]
    /\ sess = [task_map |-> {1}, vm_map |-> {1}, thread_group_map |-> {1},
               is_recording |-> TRUE]
    /\ aborted = FALSE
    /\ last_op = NoOp
    /\ hist = [t \in Tids |-> InitHist]
    /\ kill = IdleKill
    /\ mem = IdleMem
    /\ trap = IdleTrap
    /\ step = IdleStep
    /\ cstr = IdleCStr
    /\ drop = IdleDrop
    /\ clone = IdleClone
    /\ refl = IdleRefl
    /\ intr = IdleIntr

NextExec ==
    \E t \in Tids : PostExec(t)

SpecExec == InitExec /\ [][NextExec]_vars

\* ------------------------------------------------ properties of post_exec

ExecDone ==
    exec.pc = "done"

\* The munmap calls that unmap the buffers of task t as they were before
\* the exec.
UnmapsOf(t) ==
    LET b == exec.pre[t].buf
    IN  (IF b.scratch_ptr # 0
         THEN {[addr |-> b.scratch_ptr, len |-> b.scratch_size]} ELSE {})
        \cup
        (IF b.syscallbuf_child # 0
         THEN {[addr |-> b.syscallbuf_child, len |-> b.syscallbuf_size]}
         ELSE {})

Unmapped ==
    {[addr |-> exec.munmaps[i].addr, len |-> exec.munmaps[i].len] :
        i \in DOMAIN exec.munmaps}

\* C14: when T1 completes an exec while another task T2 of its address space
\* is stopped, the remote munmap calls are made through T2 and unmap T1's
\* own syscallbuf and scratch region, not the buffers of T2.
C14_UnmapsBuffersOfExecTask ==
    ExecDone /\ exec.via # 0 =>
        /\ \A i \in DOMAIN exec.munmaps : exec.munmaps[i].via = exec.via
        /\ Unmapped = UnmapsOf(exec.t)

\* The old address space and fd table of the task that exec'd.
OldAs ==
    exec.pre[exec.t].as

OldFds ==
    exec.pre[exec.t].fds

\* C15: after post_exec on T, T is in the task set neither of its old
\* AddressSpace nor of its old FdTable; T has a new AddressSpace with the old
\* exec_count + 1 and a new FdTable cloned from the old one; the other tasks
\* keep their membership.
C15_NewVmAndFdTable ==
    ExecDone =>
        LET t == exec.t
            new_as == exec.tk[t].as
            new_fds == exec.tk[t].fds
        IN  /\ t \notin exec.as[OldAs].task_set
            /\ t \notin exec.fdt[OldFds].task_set
            /\ new_as \notin DOMAIN exec.pre_as
            /\ exec.as[new_as].exec_count = exec.pre_as[OldAs].exec_count + 1
            /\ t \in exec.as[new_as].task_set
            /\ new_fds \notin DOMAIN exec.pre_fdt
            /\ exec.fdt[new_fds].cloned_from = OldFds
            /\ \A a \in DOMAIN exec.pre_as :
                  exec.as[a].task_set = exec.pre_as[a].task_set \ {t}
            /\ \A f \in DOMAIN exec.pre_fdt :
                  exec.fdt[f].task_set = exec.pre_fdt[f].task_set \ {t}
            /\ \A o \in Tids \ {t} :
                  exec.tk[o].as = exec.pre[o].as /\ exec.tk[o].fds = exec.pre[o].fds

\* C15 happens: a task sharing its address space and its fd table with
\* another task exec'd out of an address space with exec_count 1.
C15_Witness ==
    /\ ExecDone
    /\ exec.pre_as[OldAs].task_set \ {exec.t} # {}
    /\ exec.pre_fdt[OldFds].task_set \ {exec.t} # {}
    /\ exec.pre_as[OldAs].exec_count = 1
    /\ exec.as[exec.tk[exec.t].as].exec_count = 2

\* C16 as stated: after post_exec on T, syscallbuf_child and scratch_ptr are
\* null, syscallbuf_size and scratch_size are 0, desched_fd_child and
\* cloned_file_data_fd_child are -1, and preload_globals is None.
C16_AllBookkeepingCleared ==
    ExecDone =>
        exec.tk[exec.t].buf = BufferFields(exec.t, "none")

\* C16, amended: after post_exec on T, syscallbuf_child and scratch_ptr are
\* null, syscallbuf_size is 0, cloned_file_data_fd_child is -1 and
\* preload_globals is None; scratch_size and desched_fd_child keep the values
\* they had before the exec.
C16_BookkeepingCleared ==
    ExecDone =>
        LET b == exec.tk[exec.t].buf
            old == exec.pre[exec.t].buf
        IN  /\ b.syscallbuf_child = 0
            /\ b.scratch_ptr = 0
            /\ b.syscallbuf_size = 0
            /\ b.cloned_file_data_fd_child = -1
            /\ b.preload_globals = "None"
            /\ b.scratch_size = old.scratch_size
            /\ b.desched_fd_child = old.desched_fd_child

\* C16 happens: a task with a syscallbuf and a scratch region exec'd.
C16_Witness ==
    /\ ExecDone
    /\ exec.pre[exec.t].buf = BufferFields(exec.t, "syscallbuf")
    /\ exec.tk[exec.t].buf.syscallbuf_child = 0
    /\ exec.tk[exec.t].buf.desched_fd_child = 5

\* The tasks that shared the address space of the task that exec'd.
Cotenants ==
    exec.pre_as[OldAs].task_set \ {exec.t}

NoCotenantStopped ==
    \A o \in Cotenants : ~exec.pre[o].is_stopped

\* C31: in post_exec, when no other task of the execing task's address space
\* is stopped, no remote munmap is issued for any task and the rest of
\* post_exec still runs (the task leaves its old address space and fd table,
\* gets new ones and its buffer bookkeeping is cleared); a warning is logged
\* exactly when at least one other task shares the address space.
C31_LeaksWhenNoCotenantStopped ==
    ExecDone /\ NoCotenantStopped =>
        LET t == exec.t
        IN  /\ exec.munmaps = <<>>
            /\ exec.via = 0
            /\ t \notin exec.as[OldAs].task_set
            /\ t \notin exec.fdt[OldFds].task_set
            /\ exec.tk[t].as \notin DOMAIN exec.pre_as
            /\ exec.tk[t].fds \notin DOMAIN exec.pre_fdt
            /\ exec.tk[t].buf = clear_buffer_bookkeeping(exec.pre[t].buf)
            /\ exec.warned <=> Cotenants # {}

\* C31 happens: a task with a syscallbuf exec'd while the only other task of
\* its address space was running; the buffers were leaked with a warning.
C31_Witness ==
    /\ ExecDone
    /\ NoCotenantStopped
    /\ Cotenants # {}
    /\ exec.pre[exec.t].buf = BufferFields(exec.t, "syscallbuf")
    /\ exec.munmaps = <<>>
    /\ exec.warned

\* C31 happens without a warning: the task was alone in its address space.
C31_WitnessAlone ==
    /\ ExecDone
    /\ Cotenants = {}
    /\ ~exec.warned

\* -------------------------------------------------------------- read_c_str
\* Tracee memory as bytes in pages, some of them mapped, and read_c_str
\* reading a string through read_bytes_helper.

\* Number of pages of the tracee memory, and bytes in a page.
NumCStrPages == 3
CStrPageSize == 2

CStrAddrs == 0 .. (NumCStrPages * CStrPageSize - 1)

page_of(addr) ==
    addr \div CStrPageSize

ceil_page_size_skips_a_page(sz) ==
    ((sz + CStrPageSize - 1) \div CStrPageSize) * CStrPageSize + CStrPageSize

ceil_page_size(sz) ==
    ((sz + CStrPageSize - 1) \div CStrPageSize) * CStrPageSize

\* read_bytes_helper(p, buf, None) for a buffer of nbytes: the bytes, or a
\* fatal assertion when not all of them can be read.
read_all_ok(c, p, nbytes) ==
    \A a \in p .. (p + nbytes - 1) : a \in CStrAddrs /\ page_of(a) \in c.mapped

RECURSIVE scan_buf(_, _, _, _)
\* The for loop over buf[0 .. nbytes): the bytes before the first 0, and
\* whether a 0 was found.
scan_buf(c, p, nbytes, i) ==
    IF i = nbytes THEN [s |-> <<>>, found |-> FALSE]
    ELSE IF c.bytes[p + i] = 0 THEN [s |-> <<>>, found |-> TRUE]
    ELSE LET r == scan_buf(c, p, nbytes, i + 1)
         IN  [s |-> <<c.bytes[p + i]>> \o r.s, found |-> r.found]

RECURSIVE read_c_str(_, _, _, _)
\* read_c_str from p with s read so far; pages are the pages read so far.
read_c_str(c, p, s, pages) ==
    LET end_of_page == ceil_page_size(p + 1)
        nbytes == end_of_page - p
        touched == pages \cup {page_of(a) : a \in p .. (end_of_page - 1)}
    IN  IF ~read_all_ok(c, p, nbytes)
        THEN [s |-> s, pages |-> touched, abort |-> TRUE]
        ELSE LET r == scan_buf(c, p, nbytes, 0)
             IN  IF r.found
                 THEN [s |-> s \o r.s, pages |-> touched, abort |-> FALSE]
                 ELSE read_c_str(c, end_of_page, s \o r.s, touched)

ReadCStr ==
    /\ ~aborted
    /\ cstr.pc = "before"
    /\ LET r == read_c_str(cstr, cstr.child_addr, <<>>, {})
       IN  /\ cstr' = [cstr EXCEPT !.pc = "done", !.s = r.s,
                                   !.pages_read = r.pages]
           /\ aborted' = r.abort
    /\ last_op' = [op |-> "read_c_str", tid |-> 1]
    /\ UNCHANGED notCStr

InitCStr ==
    /\ \E bytes \in [CStrAddrs -> {0, 1}], mapped \in SUBSET (0 .. (NumCStrPages - 1)),
          child_addr \in CStrAddrs :
          /\ page_of(child_addr) \in mapped
          /\ cstr = [pc |-> "before", bytes |-> bytes, mapped |-> mapped,
                     child_addr |-> child_addr, s |-> <<>>, pages_read |-> {}]
    /\ tasks = [t \in Tids |-> InitTask(51, TRUE, FALSE, 1, 1)]
    /\ kern = [t \in Tids |-> InitKern(51, TRUE)]
    /\ sess = [task_map |-> {1}, vm_map |-> {1}, thread_group_map |-> {1},
               is_recording |-> TRUE]
    /\ aborted = FALSE
    /\ last_op = NoOp
    /\ hist = [t \in Tids |-> InitHist]
    /\ kill = IdleKill
    /\ mem = IdleMem
    /\ trap = IdleTrap
    /\ step = IdleStep
    /\ exec = IdleExec
    /\ drop = IdleDrop
    /\ clone = IdleClone
    /\ refl = IdleRefl
    /\ intr = IdleIntr

NextCStr ==
    ReadCStr

SpecCStr == InitCStr /\ [][NextCStr]_vars

\* ----------------------------------------------- properties of read_c_str

\* The addresses from child_addr on that hold a 0 byte.
ZerosFrom ==
    {a \in CStrAddrs : a >= cstr.child_addr /\ cstr.bytes[a] = 0}

FirstZero ==
    CHOOSE a \in ZerosFrom : \A b \in ZerosFrom : a <= b

\* C18: read_c_str returns exactly the bytes from child_addr up to (not
\* including) the first 0 byte, and reads no page beyond the page that holds
\* that 0 byte, also when the string crosses page boundaries.
C18_CStrStopsAtFirstZero ==
    cstr.pc = "done" /\ ~aborted =>
        /\ ZerosFrom # {}
        /\ Len(cstr.s) = FirstZero - cstr.child_addr
        /\ \A i \in 1 .. Len(cstr.s) :
              cstr.s[i] = cstr.bytes[cstr.child_addr + i - 1]
        /\ \A pg \in cstr.pages_read : pg <= page_of(FirstZero)

\* C18 happens: the string crossed a page boundary, its 0 byte is in the
\* last mapped page, and the page after it is not mapped.
C18_Witness ==
    /\ cstr.pc = "done" /\ ~aborted
    /\ ZerosFrom # {}
    /\ page_of(cstr.child_addr) < page_of(FirstZero)
    /\ Len(cstr.s) >= 2
    /\ page_of(FirstZero) + 1 \notin cstr.mapped
    /\ page_of(FirstZero) + 1 < NumCStrPages

\* ------------------------------------------------- properties of write_bytes

\* C19: write_bytes(addr, buf) either writes all the bytes of buf or does
\* not return: it never returns normally after a short write, on the local
\* mapping, on the ptrace fallback or on /proc/<tid>/mem.
C19_WritesAllOrDoesNotReturn ==
    AfterWrite /\ mem.last.returned =>
        mem.last.nwritten = mem.last.n

\* -------------------------------------------------------- task_drop_common
\* The tasks of one thread group and the destruction of its tasks, one after
\* the other. A task is in the task set of its thread group from clone_task
\* until task_drop_common erases it.

DropTask(unstable, seen_exit, syscallbuf_child) ==
    [unstable |-> unstable, seen_ptrace_exit_event |-> seen_exit,
     syscallbuf_child |-> syscallbuf_child]

NoDrop ==
    [t |-> 0, set_before |-> {}, detach_sent |-> FALSE, reaped |-> FALSE,
     unmapped_syscallbuf |-> FALSE]

tg_is_empty_but_for_self(d, t) ==
    d.tg_task_set \ {t} = {}

tg_is_empty(d, t) ==
    d.tg_task_set = {}

\* The guard of the waitpid that reaps the zombie.
reaps_zombie(d, t) ==
    tg_is_empty(d, t) /\ ~d.is_recording

\* t.session() is evaluated in the guard, after the test of the task set,
\* and fails when the Session is being dropped.
session_panics(d, t) ==
    tg_is_empty(d, t) /\ ~d.session_alive

notify_panics_without_session(d) ==
    ~d.session_alive

\* t.try_session().map(on_destroy_task): the lookup is fallible.
notify_panics(d) ==
    FALSE

\* What waitpid(real_tgid, __WALL) can answer, and the answers the
\* assertions accept.
WaitpidAnswers == {"tgid", "other_pid", "ECHILD", "ESRCH", "EINTR"}

waitpid_assert_ok(ret) ==
    ret \in {"tgid", "ECHILD", "ESRCH"}

\* task_drop_common(t); ret is the answer of waitpid if it is called.
task_drop_common(d, t, ret) ==
    LET tk == d.tk[t]
        reaped == ~tk.unstable /\ reaps_zombie(d, t)
        assert_ok ==
            /\ tk.unstable \/
                 ( /\ tk.seen_ptrace_exit_event
                   /\ tk.syscallbuf_child = 0
                   /\ ~session_panics(d, t)
                   /\ (reaped => waitpid_assert_ok(ret)) )
            /\ ~notify_panics(d)
        rec == [t |-> t, set_before |-> d.tg_task_set, detach_sent |-> TRUE,
                reaped |-> reaped /\ tk.seen_ptrace_exit_event
                             /\ tk.syscallbuf_child = 0
                             /\ ~session_panics(d, t),
                unmapped_syscallbuf |-> tk.unstable /\ tk.syscallbuf_child # 0]
    IN  IF assert_ok
        THEN [d |-> [d EXCEPT !.last = rec,
                              !.tg_task_set = @ \ {t},
                              !.vm_task_set = @ \ {t},
                              !.fd_task_set = @ \ {t},
                              !.destroyed = IF d.session_alive
                                            THEN @ \cup {t} ELSE @],
              abort |-> FALSE]
        ELSE [d |-> [d EXCEPT !.last = rec], abort |-> TRUE]

TaskDrop(t) ==
    /\ ~aborted
    /\ drop.pc = "live"
    /\ t \in drop.tg_task_set
    /\ \E ret \in (IF /\ ~drop.tk[t].unstable
                      /\ ~session_panics(drop, t)
                      /\ reaps_zombie(drop, t)
                   THEN WaitpidAnswers ELSE {"tgid"}) :
          LET r == task_drop_common(drop, t, ret)
          IN  /\ drop' = r.d
              /\ aborted' = r.abort
    /\ last_op' = [op |-> "task_drop", tid |-> t]
    /\ UNCHANGED notDrop

InitDrop ==
    /\ \E members \in SUBSET Tids, is_recording \in BOOLEAN,
          session_alive \in BOOLEAN,
          unstable \in [Tids -> BOOLEAN], seen_exit \in [Tids -> BOOLEAN],
          syscallbuf_child \in [Tids -> {0, 16}] :
          /\ members # {}
          /\ drop = [pc |-> "live", tg_task_set |-> members,
                     vm_task_set |-> members, fd_task_set |-> members,
                     session_alive |-> session_alive,
                     is_recording |-> is_recording,
                     tk |-> [t \in Tids |->
                               DropTask(unstable[t], seen_exit[t],
                                        syscallbuf_child[t])],
                     destroyed |-> {}, last |-> NoDrop]
    /\ tasks = [t \in Tids |-> InitTask(51, TRUE, FALSE, 1, 1)]
    /\ kern = [t \in Tids |-> InitKern(51, TRUE)]
    /\ sess = [task_map |-> {1}, vm_map |-> {1}, thread_group_map |-> {1},
               is_recording |-> TRUE]
    /\ aborted = FALSE
    /\ last_op = NoOp
    /\ hist = [t \in Tids |-> InitHist]
    /\ kill = IdleKill
    /\ mem = IdleMem
    /\ trap = IdleTrap
    /\ step = IdleStep
    /\ exec = IdleExec
    /\ cstr = IdleCStr
    /\ clone = IdleClone
    /\ refl = IdleRefl
    /\ intr = IdleIntr

NextDrop ==
    \E t \in Tids : TaskDrop(t)

SpecDrop == InitDrop /\ [][NextDrop]_vars

\* ------------------------------------------ properties of task destruction

\* A task that is not unstable was destroyed (and no assertion failed).
StableDropped ==
    /\ last_op.op = "task_drop"
    /\ ~aborted
    /\ ~drop.tk[drop.last.t].unstable

LastMember ==
    drop.last.set_before = {drop.last.t}

C21_DropToleratesDeadSession ==
    /\ last_op.op = "task_drop"
    /\ ~drop.session_alive
    /\ LET tk == drop.tk[drop.last.t]
       IN  tk.unstable \/ (tk.seen_ptrace_exit_event /\ tk.syscallbuf_child = 0)
    => /\ ~aborted
       /\ drop.last.t \notin drop.tg_task_set
       /\ drop.last.t \notin drop.vm_task_set
       /\ drop.last.t \notin drop.fd_task_set
       /\ drop.last.t \notin drop.destroyed

\* C21 happens: a stable task, the last of its thread group, was destroyed
\* after its Session had become unreachable.
C21_Witness ==
    /\ last_op.op = "task_drop"
    /\ ~aborted
    /\ ~drop.session_alive
    /\ ~drop.tk[drop.last.t].unstable
    /\ LastMember
    /\ drop.tg_task_set = {}
    /\ drop.vm_task_set = {}

\* ------------------------------------- the probe of resume_execution (C22)

AfterResumeCall(t) ==
    /\ last_op.tid = t
    /\ last_op.op \in {"resume_execution", "resume_execution_wait"}

\* C22: a resume_execution call in a recording session makes one WNOHANG
\* probe; when the probe reports that the task changed state the call sets
\* detected_unexpected_exit and issues no ptrace resume request, otherwise it
\* issues exactly one. In a session that is not recording no probe is made
\* and exactly one request is issued. Unless a synchronous wait was
\* requested, the task ends the call with is_stopped = false and its extra
\* registers invalidated.
C22_ProbeDecidesRequest ==
    \A t \in Tids :
        AfterResumeCall(t) =>
            LET re == hist[t].re
            IN  /\ re.probes = (IF sess.is_recording THEN 1 ELSE 0)
                /\ re.hit => re.probes = 1 /\ re.flagged /\ re.requests = 0
                /\ ~re.hit => re.requests = 1
                /\ last_op.op = "resume_execution" =>
                       /\ ~tasks[t].is_stopped
                       /\ tasks[t].extra_registers = "None"
                       /\ tasks[t].detected_unexpected_exit = re.flagged

\* C22 happens: a task was resumed without a wait while recording, and the
\* probe found that it had exited.
C22_Witness ==
    \E t \in Tids :
        /\ last_op = [op |-> "resume_execution", tid |-> t]
        /\ sess.is_recording
        /\ hist[t].re.hit
        /\ hist[t].re.requests = 0
        /\ tasks[t].detected_unexpected_exit
        /\ tasks[t].extra_registers = "None"

\* The other cases of C22: a resume whose probe found nothing, and a resume
\* in a session that is not recording, each with one ptrace request.
C22_WitnessRequest ==
    \E t \in Tids :
        /\ last_op = [op |-> "resume_execution", tid |-> t]
        /\ sess.is_recording
        /\ ~hist[t].re.hit
        /\ hist[t].re.requests = 1

C22_WitnessNotRecording ==
    \E t \in Tids :
        /\ AfterResumeCall(t)
        /\ ~sess.is_recording
        /\ hist[t].re.probes = 0
        /\ hist[t].re.requests = 1

\* ------------------------------ the dirty-register assertion of did_waitpid

AfterDidWaitpidCall(t) ==
    last_op.tid = t /\ last_op.op \in {"did_waitpid", "did_waitpid_abort"}

\* C23: did_waitpid fails its assertion when it is called on a task whose
\* registers are dirty and the status, after the rewriting that a failed
\* PTRACE_GETSIGINFO does, is not PTRACE_EVENT_EXIT; when that status is
\* PTRACE_EVENT_EXIT the dirty registers are tolerated and did_waitpid
\* completes, leaving the task stopped with the exit event recorded.
C23_DirtyRegistersAsserted ==
    \A t \in Tids :
        AfterDidWaitpidCall(t) /\ hist[t].dw.dirty =>
            IF hist[t].dw.asserted = "exit_event"
            THEN /\ ~aborted
                 /\ last_op.op = "did_waitpid"
                 /\ tasks[t].is_stopped
                 /\ tasks[t].wait_status = "exit_event"
                 /\ tasks[t].seen_ptrace_exit_event
            ELSE /\ aborted
                 /\ last_op.op = "did_waitpid_abort"

\* C23 happens: did_waitpid was called with a stop status on a task with
\* dirty registers and failed.
C23_Witness ==
    \E t \in Tids :
        /\ last_op = [op |-> "did_waitpid_abort", tid |-> t]
        /\ aborted
        /\ hist[t].dw.dirty
        /\ hist[t].dw.asserted \in StopStatuses

\* The other case of C23: dirty registers and an exit status, passed in or
\* rewritten from a signal stop whose tracee had vanished.
C23_WitnessTolerated ==
    \E t \in Tids :
        /\ last_op = [op |-> "did_waitpid", tid |-> t]
        /\ hist[t].dw.dirty
        /\ hist[t].dw.status_in = "stop_sig"
        /\ hist[t].dw.asserted = "exit_event"
        /\ ~aborted

\* ------------------------------------------- phase 1 of kill_all_tasks (C24)

InPhase1 ==
    kill.pc \in {"phase1", "detach"}

\* A PTRACE_DETACH has been issued for the task.
DetachIssued(t) ==
    \/ kill.detach[t] # "none"
    \/ kill.pc = "detach" /\ kill.cur = t /\ kill.retries > 0

\* C24: in phase 1 of kill_all_tasks, a stopped task's cached registers are
\* pointed at the exit syscall (ip = privileged_traced_syscall_ip, syscallno
\* = exit, arg1 = 0) and flushed before the first PTRACE_DETACH for it: when
\* the detach loop is entered and whenever a detach has been issued, the
\* cache is clean and holds these values, and so does a live tracee. A task
\* that is not stopped keeps its registers and gets no ptrace request in
\* phase 1.
C24_Phase1PreparesStoppedOnly ==
    \A t \in kill.start.map :
        /\ (kill.pc = "detach" /\ kill.cur = t) \/ DetachIssued(t) =>
              /\ t \in kill.start.stopped
              /\ t \in kill.touched
              /\ PointedAtExit(tasks[t].registers)
              /\ ~tasks[t].registers_dirty
              /\ t \notin kill.start.dead => PointedAtExit(kern[t].regs)
        /\ InPhase1 /\ t \notin kill.start.stopped =>
              /\ t \notin kill.touched
              /\ ~DetachIssued(t)
              /\ tasks[t].registers = InitTask(51, FALSE, FALSE, 1, 1).registers
              /\ ~tasks[t].registers_dirty
              /\ kern[t] = InitKern(51, FALSE)

\* C24 happens: phase 1 stands before the first PTRACE_DETACH of a stopped
\* task whose registers it has just flushed, having skipped a running task.
C24_Witness ==
    /\ kill.pc = "detach"
    /\ kill.retries = 0
    /\ last_op = [op |-> "kill_prepare", tid |-> kill.cur]
    /\ PointedAtExit(kern[kill.cur].regs)
    /\ \E t \in kill.start.map \ kill.start.stopped : t \notin kill.todo

\* -------------------------------------------- the detach retry loop (C25)

\* What holds of the detach loop in every state: a task has left the loop
\* only by a PTRACE_DETACH that succeeded or by ESRCH with its tid a zombie;
\* an errno other than ESRCH has failed the assertion; a spurious ESRCH has
\* kept the loop on the same task.
DetachLoopSafe ==
    /\ \A t \in Tids :
          /\ kill.detach[t] \in {"none", "ok", "zombie"}
          /\ kill.detach[t] = "ok" => ~kern[t].attached
          /\ kill.detach[t] = "zombie" => kern[t].run = "dead"
    /\ last_op.op = "kill_detach" =>
          /\ kill.answer = "other_errno" <=> aborted
          /\ kill.answer = "esrch_retry" =>
                /\ kill.pc = "detach" /\ kill.cur = last_op.tid
                /\ kill.detach[last_op.tid] = "none"
                /\ kill.retries > 0
          /\ kill.answer \in {"ok", "esrch_zombie"} =>
                kill.detach[last_op.tid] # "none" /\ kill.cur = 0

\* C25: the detach loop leaves a task only when PTRACE_DETACH succeeded or
\* failed with ESRCH for a zombie, fails the assertion on any other errno,
\* and retries on ESRCH for a tracee that is not a zombie; when the spurious
\* ESRCH is not repeated forever, the loop of every task ends (or the
\* assertion has failed).
C25_DetachLoopTerminates ==
    /\ []DetachLoopSafe
    /\ \A t \in Tids :
          (kill.pc = "detach" /\ kill.cur = t)
              ~> (kill.detach[t] \in {"ok", "zombie"} \/ aborted)

\* C25 happens: a task left the detach loop by a successful PTRACE_DETACH
\* after the loop had retried on a spurious ESRCH.
C25_Witness ==
    /\ last_op.op = "kill_detach"
    /\ kill.answer = "ok"
    /\ kill.detach[last_op.tid] = "ok"
    /\ kill.retries > 0
    /\ ~aborted

\* ------------------------------------------- phase 2 of kill_all_tasks (C26)

\* The tasks that phase 2 has taken from the task map.
Popped ==
    kill.start.map \ sess.task_map

SameThreadGroup(t, u) ==
    tasks[t].tg = tasks[u].tg

\* C26 as stated: a task is sent tgkill if and only if its thread group is
\* not unstable when the task is taken from the map, a thread group being
\* unstable when one of its tasks carries the unstable flag.
C26_TgkillIffThreadGroupStable ==
    \A t \in Popped : t \in kill.tgkilled <=> t \notin kill.found_tg_unstable

\* C26, amended: a task is sent tgkill if and only if its own unstable flag
\* is clear when the task is taken from the map; right after a tgkill every
\* task of the thread group carries the flag, so that a thread group gets at
\* most one tgkill and a task found flagged gets none. A task is found
\* flagged when it was flagged at the start or a task of its thread group
\* was sent tgkill before it.
C26_TgkillIffTaskStable ==
    /\ \A t \in Popped :
          /\ t \in kill.tgkilled <=> t \notin kill.found_unstable
          /\ t \in kill.found_unstable <=>
                \/ t \in kill.start.unstable
                \/ \E u \in kill.tgkilled : u > t /\ SameThreadGroup(t, u)
    /\ \A t \in kill.tgkilled, u \in kill.start.map :
          SameThreadGroup(t, u) => tasks[u].unstable
    /\ \A t, u \in kill.tgkilled : SameThreadGroup(t, u) => t = u

\* C26 happens: phase 2 has taken two tasks of one thread group from the
\* map, sent tgkill to the first and found the second flagged by it.
C26_Witness ==
    /\ last_op.op = "kill_pop"
    /\ \E t, u \in Popped :
          /\ u > t /\ SameThreadGroup(t, u)
          /\ u \in kill.tgkilled
          /\ t \notin kill.start.unstable
          /\ t \in kill.found_unstable
          /\ t \notin kill.tgkilled

\* ------------------------------------- the cleanup of kill_all_tasks (C27)

CleanupCalls ==
    {u \in Tids : kill.calls_vm[u] > 0 \/ kill.calls_tg[u] > 0}

\* C27: on_destroy_vm and on_destroy_tg are invoked only after the task map
\* has been emptied, and by the time kill_all_tasks returns exactly once for
\* each AddressSpace uid and each ThreadGroup uid that was in the session's
\* maps when the task map became empty, and for no other uid.
C27_CleanupAfterDrain ==
    /\ ~kill.early_calls
    /\ CleanupCalls # {} => sess.task_map = {} /\ kill.at_empty.reached
    /\ \A u \in Tids :
          /\ kill.calls_vm[u] <= 1 /\ kill.calls_tg[u] <= 1
          /\ kill.calls_vm[u] = 1 => u \in kill.at_empty.vm
          /\ kill.calls_tg[u] = 1 => u \in kill.at_empty.tg
    /\ KillReturned =>
          \A u \in Tids :
              /\ u \in kill.at_empty.vm => kill.calls_vm[u] = 1
              /\ u \in kill.at_empty.tg => kill.calls_tg[u] = 1

\* C27 happens: kill_all_tasks has returned after notifying the session of
\* two address spaces and two thread groups.
C27_Witness ==
    /\ KillReturned
    /\ Cardinality(kill.at_empty.vm) = 2
    /\ Cardinality(kill.at_empty.tg) = 2
    /\ \A u \in kill.at_empty.vm : kill.calls_vm[u] = 1
    /\ \A u \in kill.at_empty.tg : kill.calls_tg[u] = 1

\* ====================================================================
\* clone_task_common, post_exec_for_exe and the destructor over the task
\* sets of the objects tasks share (SpecClone)
\* ====================================================================

\* The tids a session can hand out, and the execs it can see.
MaxCloneTasks == 3
MaxExecs == 1

\* The operations of one run of SpecClone.
MaxCloneOps == 4

CloneTids == 1 .. MaxCloneTasks

CloneFlags == {"CLONE_SHARE_VM", "CLONE_SHARE_FILES", "CLONE_SHARE_THREAD_GROUP"}

CloneReasons == {"TraceeClone", "SessionCloneLeader"}

\* A tid without a Task: not yet created, or destroyed.
NoCloneTask ==
    [alive |-> FALSE, is_stopped |-> FALSE, as |-> 0, fds |-> 0, tg |-> 0,
     buf |-> BufferFields(0, "none")]

\* One step of clone_task_common as the tracee and the bookkeeping see it.
CloneEvent(ev, via, of, addr, len, fd) ==
    [ev |-> ev, via |-> via, of |-> of, addr |-> addr, len |-> len, fd |-> fd]

\* The munmap calls of one unmap_buffers_for, as events about task `of`.
munmap_events(of, calls) ==
    [i \in 1 .. Len(calls) |->
        CloneEvent("munmap", calls[i].via, of, calls[i].addr, calls[i].len, -1)]

\* Session::clone_vm: a copy of the address space, for the new task.
clone_vm(old_vm) ==
    [exec_count |-> old_vm.exec_count, task_set |-> {}]

\* Session::clone_tg: a new thread group, for the new task.
clone_tg(old_tg) ==
    [task_set |-> {}]

\* The fields the new task copies from clone_this; the rest is as the
\* constructor leaves it.
cloned_buffer_fields(parent_buf) ==
    [BufferFields(0, "none") EXCEPT
        !.syscallbuf_size = parent_buf.syscallbuf_size,
        !.preload_globals = parent_buf.preload_globals]

\* A mutant of task_set_insert: the task is not inserted.
task_set_insert_skipped(task_set, t) ==
    task_set

\* task_set_mut().insert(weak_self_ptr).
task_set_insert(task_set, t) ==
    task_set \cup {t}

\* A mutant of tasks_except: the iteration does not leave out the task.
tasks_except_none(task_set, t) ==
    task_set

\* task_set().iter_except(t.weak_self_ptr()).
tasks_except(task_set, t) ==
    task_set \ {t}

\* The loop over the other tasks of clone_this's address space: through the
\* new task, unmap_buffers_for each of them.
RECURSIVE unmap_buffers_of(_, _, _)
unmap_buffers_of(c, via, todo) ==
    IF todo = {}
    THEN <<>>
    ELSE LET tt == SetMin(todo)
             b == c.tk[tt].buf
         IN  munmap_events(tt, unmap_buffers_for(via, b.syscallbuf_child,
                                                 b.syscallbuf_size,
                                                 b.scratch_ptr, b.scratch_size))
             \o unmap_buffers_of(c, via, todo \ {tt})

\* A mutant of desched_close_issued: the close is issued in any session.
desched_close_issued_always(is_recording) ==
    TRUE

\* The remote close of a desched fd is made when the session is recording.
desched_close_issued(is_recording) ==
    is_recording

\* close_buffers_for(remote, other_desched_fd_child,
\* other_cloned_file_data_fd_child), as events about task `of`.
close_buffers_for(via, of, desched_fd, cloned_file_data_fd, is_recording) ==
    (IF desched_fd >= 0
     THEN (IF desched_close_issued(is_recording)
           THEN <<CloneEvent("close", via, of, 0, 0, desched_fd)>>
           ELSE <<>>)
          \o <<CloneEvent("did_close", via, of, 0, 0, desched_fd)>>
     ELSE <<>>)
    \o
    (IF cloned_file_data_fd >= 0
     THEN <<CloneEvent("close", via, of, 0, 0, cloned_file_data_fd),
            CloneEvent("did_close", via, of, 0, 0, cloned_file_data_fd)>>
     ELSE <<>>)

\* The loop over the other tasks of clone_this's fd table.
RECURSIVE close_buffers_of(_, _, _)
close_buffers_of(c, via, todo) ==
    IF todo = {}
    THEN <<>>
    ELSE LET tt == SetMin(todo)
             b == c.tk[tt].buf
         IN  close_buffers_for(via, tt, b.desched_fd_child,
                               b.cloned_file_data_fd_child, c.is_recording)
             \o close_buffers_of(c, via, todo \ {tt})

\* What a TraceeClone does after the task sets are in place: the unmapping
\* (without CLONE_SHARE_VM) and the closing (without CLONE_SHARE_FILES).
tracee_clone_events(c, p, t, flags, reason) ==
    LET pb == c.tk[p].buf
    IN  (IF reason = "TraceeClone" /\ "CLONE_SHARE_VM" \notin flags
         THEN unmap_buffers_of(c, t, tasks_except(c.as[c.tk[p].as].task_set, p))
              \o <<CloneEvent("did_fork_into", t, p, 0, 0, -1)>>
         ELSE <<>>)
        \o
        (IF reason = "TraceeClone" /\ "CLONE_SHARE_FILES" \notin flags
         THEN close_buffers_for(t, p, pb.desched_fd_child,
                                pb.cloned_file_data_fd_child, c.is_recording)
              \o close_buffers_of(c, t,
                                  tasks_except(c.fdt[c.tk[p].fds].task_set, p))
         ELSE <<>>)

\* clone_task_common(clone_this = p, reason, flags, ...) creating task t.
clone_task_common(c, p, t, flags, reason) ==
    LET share_vm == "CLONE_SHARE_VM" \in flags
        share_files == "CLONE_SHARE_FILES" \in flags
        share_tg == "CLONE_SHARE_THREAD_GROUP" \in flags
        new_as == Cardinality(DOMAIN c.as) + 1
        new_fds == Cardinality(DOMAIN c.fdt) + 1
        new_tg == Cardinality(DOMAIN c.tgs) + 1
        as_id == IF share_vm THEN c.tk[p].as ELSE new_as
        fds_id == IF share_files THEN c.tk[p].fds ELSE new_fds
        tg_id == IF share_tg THEN c.tk[p].tg ELSE new_tg
        as1 == IF share_vm THEN c.as
               ELSE c.as @@ (new_as :> clone_vm(c.as[c.tk[p].as]))
        fdt1 == IF share_files
                THEN [c.fdt EXCEPT ![fds_id].task_set = task_set_insert(@, t)]
                ELSE c.fdt @@ (new_fds :> clone_into_task(c.tk[p].fds, t))
        tgs1 == IF share_tg THEN c.tgs
                ELSE c.tgs @@ (new_tg :> clone_tg(c.tgs[c.tk[p].tg]))
        tgs2 == [tgs1 EXCEPT ![tg_id].task_set = task_set_insert(@, t)]
        as2 == [as1 EXCEPT ![as_id].task_set = task_set_insert(@, t)]
        events == <<CloneEvent("wait", t, t, 0, 0, -1)>>
                  \o tracee_clone_events(c, p, t, flags, reason)
    IN  [c EXCEPT
           !.t = t,
           !.pre = c.tk, !.pre_as = c.as, !.pre_fdt = c.fdt, !.pre_tgs = c.tgs,
           !.as = as2, !.fdt = fdt1, !.tgs = tgs2,
           !.tk[t] = [alive |-> TRUE, is_stopped |-> TRUE, as |-> as_id,
                      fds |-> fds_id, tg |-> tg_id,
                      buf |-> cloned_buffer_fields(c.tk[p].buf)],
           !.last = [parent |-> p, flags |-> flags, reason |-> reason,
                     events |-> events]]

\* The destructor's last steps: the task leaves the task sets of its thread
\* group, its address space and its fd table.
erase_from_task_sets(c, t) ==
    [c EXCEPT
       !.tgs[c.tk[t].tg].task_set = @ \ {t},
       !.as[c.tk[t].as].task_set = @ \ {t},
       !.fdt[c.tk[t].fds].task_set = @ \ {t},
       !.tk[t] = NoCloneTask]

\* ---- actions of SpecClone

NoCloneOp ==
    [parent |-> 0, flags |-> {}, reason |-> "none", events |-> <<>>]

\* The record of the last operation is kept for a clone only.
forget_last(c) ==
    [c EXCEPT !.ops = @ + 1, !.t = 0, !.via = 0, !.munmaps = <<>>,
              !.warned = FALSE,
              !.pre = c.tk, !.pre_as = c.as, !.pre_fdt = c.fdt,
              !.pre_tgs = c.tgs, !.last = NoCloneOp]

CloneCreated ==
    {t \in CloneTids : clone.created[t]}

CloneTask(flags, reason) ==
    /\ ~aborted
    /\ clone.pc = "live"
    /\ Cardinality(CloneCreated) < MaxCloneTasks
    /\ clone.ops < MaxCloneOps
    /\ \E p \in CloneTids :
          /\ clone.tk[p].alive
          /\ LET t == Cardinality(CloneCreated) + 1
             IN  clone' = [clone_task_common(clone, p, t, flags, reason)
                              EXCEPT !.created[t] = TRUE, !.ops = @ + 1]
    /\ last_op' = [op |-> "clone_task", tid |-> Cardinality(CloneCreated) + 1]
    /\ UNCHANGED <<aborted, notClone>>

ClonePostExec(t) ==
    /\ ~aborted
    /\ clone.pc = "live"
    /\ clone.tk[t].alive
    /\ clone.execs < MaxExecs
    /\ clone.ops < MaxCloneOps
    /\ LET stopped == stopped_tasks_in_address_space(clone, t)
       IN  \E stopped_task \in (IF stopped = {} THEN {0} ELSE stopped) :
              clone' = forget_last([post_exec_for_exe(clone, t, stopped_task)
                                       EXCEPT !.pc = "live", !.execs = @ + 1])
    /\ last_op' = [op |-> "post_exec", tid |-> t]
    /\ UNCHANGED <<aborted, notClone>>

CloneTaskDrop(t) ==
    /\ ~aborted
    /\ clone.pc = "live"
    /\ clone.tk[t].alive
    /\ clone.ops < MaxCloneOps
    /\ clone' = forget_last(erase_from_task_sets(clone, t))
    /\ last_op' = [op |-> "task_drop", tid |-> t]
    /\ UNCHANGED <<aborted, notClone>>

\* The other concerns are idle in the specifications of clone.
IdleButClone ==
    /\ tasks = [t \in Tids |-> InitTask(51, TRUE, FALSE, 1, 1)]
    /\ kern = [t \in Tids |-> InitKern(51, TRUE)]
    /\ sess = [task_map |-> {1}, vm_map |-> {1}, thread_group_map |-> {1},
               is_recording |-> TRUE]
    /\ aborted = FALSE
    /\ last_op = NoOp
    /\ hist = [t \in Tids |-> InitHist]
    /\ kill = IdleKill
    /\ mem = IdleMem
    /\ trap = IdleTrap
    /\ step = IdleStep
    /\ exec = IdleExec
    /\ cstr = IdleCStr
    /\ drop = IdleDrop
    /\ refl = IdleRefl
    /\ intr = IdleIntr

\* The tasks of a session before a clone: which address space and fd table
\* (of two) each task uses and which buffers it has set up.
ClonePopulation(n, layout, as, fds, is_recording) ==
    LET tk == [t \in CloneTids |->
                  IF t <= n
                  THEN [alive |-> TRUE, is_stopped |-> TRUE, as |-> as[t],
                        fds |-> fds[t], tg |-> as[t],
                        buf |-> BufferFields(t, layout[t])]
                  ELSE NoCloneTask]
        vms == [a \in {1, 2} |->
                  [exec_count |-> 0, task_set |-> {t \in 1 .. n : as[t] = a}]]
        fdt == [f \in {1, 2} |->
                  [task_set |-> {t \in 1 .. n : fds[t] = f}, cloned_from |-> 0]]
        tgs == [g \in {1, 2} |-> [task_set |-> {t \in 1 .. n : as[t] = g}]]
    IN  [pc |-> "live", t |-> 0, via |-> 0, munmaps |-> <<>>,
         warned |-> FALSE,
         tk |-> tk, as |-> vms, fdt |-> fdt, tgs |-> tgs,
         pre |-> tk, pre_as |-> vms, pre_fdt |-> fdt, pre_tgs |-> tgs,
         created |-> [t \in CloneTids |-> t <= n],
         is_recording |-> is_recording,
         execs |-> 0, ops |-> 0, last |-> NoCloneOp]

\* A session with one task, without buffers.
InitClone ==
    /\ clone = ClonePopulation(1, [t \in CloneTids |-> "none"],
                               [t \in CloneTids |-> 1],
                               [t \in CloneTids |-> 1], TRUE)
    /\ IdleButClone

\* A session, recording or not, with all tasks but one in place, in one or
\* two address spaces and fd tables, each with or without buffers.
InitCloneBuffers ==
    /\ \E layout \in [CloneTids -> BufferLayouts], as \in [CloneTids -> {1, 2}],
          fds \in [CloneTids -> {1, 2}], is_recording \in BOOLEAN :
          /\ as[1] = 1 /\ fds[1] = 1
          /\ layout[MaxCloneTasks] = "none"
          /\ as[MaxCloneTasks] = 1 /\ fds[MaxCloneTasks] = 1
          /\ clone = ClonePopulation(MaxCloneTasks - 1, layout, as, fds,
                                     is_recording)
    /\ IdleButClone

NextClone ==
    \/ \E flags \in SUBSET CloneFlags : CloneTask(flags, "TraceeClone")
    \/ \E t \in CloneTids : ClonePostExec(t)
    \/ \E t \in CloneTids : CloneTaskDrop(t)

SpecClone == InitClone /\ [][NextClone]_vars

NextCloneBuffers ==
    \E flags \in SUBSET CloneFlags, reason \in CloneReasons :
        CloneTask(flags, reason)

\* One clone_task_common on every session of InitCloneBuffers.
SpecCloneBuffers == InitCloneBuffers /\ [][NextCloneBuffers]_vars

\* ---- properties of SpecClone

\* The objects whose task set holds the task.
SetsHolding(objs, t) ==
    {id \in DOMAIN objs : t \in objs[id].task_set}

\* C28, the membership: every live task is in the task set of the thread
\* group, the address space and the fd table it references and in no other;
\* a tid without a task is in none.
TaskSetsConsistent ==
    \A t \in CloneTids :
        LET tk == clone.tk[t]
        IN  IF tk.alive
            THEN /\ SetsHolding(clone.tgs, t) = {tk.tg}
                 /\ SetsHolding(clone.as, t) = {tk.as}
                 /\ SetsHolding(clone.fdt, t) = {tk.fds}
            ELSE /\ SetsHolding(clone.tgs, t) = {}
                 /\ SetsHolding(clone.as, t) = {}
                 /\ SetsHolding(clone.fdt, t) = {}

\* C28, the sharing: the new task shares its parent's address space, fd
\* table and thread group exactly when the flag is set, and has a fresh
\* one, holding it alone, otherwise.
SharesByFlag ==
    last_op.op = "clone_task" =>
        LET t == clone.t
            p == clone.last.parent
            f == clone.last.flags
            tk == clone.tk[t]
            ptk == clone.pre[p]
        IN  /\ tk.as = ptk.as <=> "CLONE_SHARE_VM" \in f
            /\ tk.fds = ptk.fds <=> "CLONE_SHARE_FILES" \in f
            /\ tk.tg = ptk.tg <=> "CLONE_SHARE_THREAD_GROUP" \in f
            /\ "CLONE_SHARE_VM" \notin f =>
                  /\ tk.as \notin DOMAIN clone.pre_as
                  /\ clone.as[tk.as] =
                        [clone.pre_as[ptk.as] EXCEPT !.task_set = {t}]
            /\ "CLONE_SHARE_FILES" \notin f =>
                  /\ tk.fds \notin DOMAIN clone.pre_fdt
                  /\ clone.fdt[tk.fds] = [task_set |-> {t}, cloned_from |-> ptk.fds]
            /\ "CLONE_SHARE_THREAD_GROUP" \notin f =>
                  /\ tk.tg \notin DOMAIN clone.pre_tgs
                  /\ clone.tgs[tk.tg].task_set = {t}

\* C28: after any sequence of clone_task, post_exec and destruction, every
\* live task is a member of the task sets of exactly the ThreadGroup,
\* AddressSpace and FdTable it references, a destroyed task is a member of
\* none, and clone_task shares each of the three exactly when its flag is
\* set and makes a fresh copy otherwise.
C28_TaskSetsFollowReferences ==
    TaskSetsConsistent /\ SharesByFlag

\* C28 happens: after a clone that shared the address space only, an exec
\* and a destruction, two live tasks reference different objects.
C28_Witness ==
    /\ clone.execs = 1
    /\ \E t, u, v \in CloneTids :
          /\ clone.tk[t].alive /\ clone.tk[u].alive /\ t # u
          /\ clone.created[v] /\ ~clone.tk[v].alive
          /\ clone.tk[t].as # clone.tk[u].as
          /\ clone.tk[t].tg = clone.tk[u].tg

\* ---- properties of SpecCloneBuffers

AfterClone ==
    last_op.op = "clone_task"

CloneEvents ==
    clone.last.events

EventsOf(kind) ==
    {i \in DOMAIN CloneEvents : CloneEvents[i].ev = kind}

\* The cloner, and the tasks that shared its address space and its fd table
\* when clone_task_common was called.
Cloner ==
    clone.last.parent

ClonerVmTasks ==
    clone.pre_as[clone.pre[Cloner].as].task_set

ClonerFdTasks ==
    clone.pre_fdt[clone.pre[Cloner].fds].task_set

\* The buffers the tasks have mapped, as <<task, address, length>>.
MappedBuffers(ts) ==
    {<<u, clone.pre[u].buf.scratch_ptr, clone.pre[u].buf.scratch_size>> :
        u \in {v \in ts : clone.pre[v].buf.scratch_ptr # 0}}
    \cup
    {<<u, clone.pre[u].buf.syscallbuf_child, clone.pre[u].buf.syscallbuf_size>> :
        u \in {v \in ts : clone.pre[v].buf.syscallbuf_child # 0}}

UnmapsBuffers ==
    clone.last.reason = "TraceeClone" /\ "CLONE_SHARE_VM" \notin clone.last.flags

\* C29: a TraceeClone without CLONE_SHARE_VM remotely unmaps, through the
\* new task, the syscallbuf and the scratch region of every task of the
\* cloner's address space other than the cloner, unmaps no buffer of the
\* cloner, and then calls did_fork_into; with CLONE_SHARE_VM or another
\* reason nothing is unmapped; all of it comes after the new task's first
\* wait.
C29_UnmapsOthersAfterWait ==
    AfterClone =>
        LET ev == CloneEvents
            munmaps == EventsOf("munmap")
            forks == EventsOf("did_fork_into")
        IN  /\ EventsOf("wait") = {1}
            /\ IF UnmapsBuffers
               THEN /\ {<<ev[i].of, ev[i].addr, ev[i].len>> : i \in munmaps}
                          = MappedBuffers(ClonerVmTasks \ {Cloner})
                    /\ Cardinality(munmaps)
                          = Cardinality(MappedBuffers(ClonerVmTasks \ {Cloner}))
                    /\ \A i \in munmaps :
                          /\ ev[i].via = clone.t
                          /\ ev[i].of # Cloner
                          /\ i > 1
                    /\ Cardinality(forks) = 1
                    /\ \A i \in forks : \A j \in munmaps : j < i
               ELSE munmaps = {} /\ forks = {}

\* C29 happens: a TraceeClone without CLONE_SHARE_VM by a cloner that has a
\* scratch region, in an address space with another task whose syscallbuf
\* and scratch region were unmapped.
C29_Witness ==
    /\ AfterClone
    /\ UnmapsBuffers
    /\ clone.pre[Cloner].buf.scratch_ptr # 0
    /\ Cardinality(EventsOf("munmap")) = 2
    /\ Cardinality(ClonerVmTasks) = 2

ClosesBuffers ==
    clone.last.reason = "TraceeClone" /\ "CLONE_SHARE_FILES" \notin clone.last.flags

\* The fds of the tasks, as <<task, fd>>.
DeschedFds(ts) ==
    {<<u, clone.pre[u].buf.desched_fd_child>> :
        u \in {v \in ts : clone.pre[v].buf.desched_fd_child >= 0}}

ClonedFileDataFds(ts) ==
    {<<u, clone.pre[u].buf.cloned_file_data_fd_child>> :
        u \in {v \in ts : clone.pre[v].buf.cloned_file_data_fd_child >= 0}}

FdsOf(kind) ==
    {<<CloneEvents[i].of, CloneEvents[i].fd>> : i \in EventsOf(kind)}

\* C30 as stated: a TraceeClone without CLONE_SHARE_FILES issues remote
\* close syscalls for desched_fd and cloned_file_data_fd only when
\* recording; when not recording none is issued and only the FdTable
\* bookkeeping is updated.
C30_ClosesOnlyWhenRecording ==
    AfterClone /\ ClosesBuffers =>
        /\ FdsOf("did_close")
              = DeschedFds(ClonerFdTasks) \cup ClonedFileDataFds(ClonerFdTasks)
        /\ FdsOf("close") = IF clone.is_recording THEN FdsOf("did_close") ELSE {}

\* C30, amended: a TraceeClone without CLONE_SHARE_FILES issues, for the
\* cloner and every other task of its fd table, the remote close of
\* desched_fd only when recording and the remote close of
\* cloned_file_data_fd whether recording or not; did_close updates the
\* FdTable bookkeeping for both fds in either case. With CLONE_SHARE_FILES
\* or another reason nothing is closed.
C30_DeschedClosedOnlyWhenRecording ==
    AfterClone =>
        IF ClosesBuffers
        THEN /\ FdsOf("did_close")
                   = DeschedFds(ClonerFdTasks) \cup ClonedFileDataFds(ClonerFdTasks)
             /\ FdsOf("close")
                   = ClonedFileDataFds(ClonerFdTasks)
                     \cup (IF clone.is_recording THEN DeschedFds(ClonerFdTasks)
                           ELSE {})
             /\ \A i \in EventsOf("close") \cup EventsOf("did_close") :
                   CloneEvents[i].via = clone.t
        ELSE FdsOf("close") = {} /\ FdsOf("did_close") = {}

\* C30 happens: a TraceeClone without CLONE_SHARE_FILES in a session that is
\* not recording closed the cloned_file_data_fd of two tasks remotely and
\* no desched_fd.
C30_Witness ==
    /\ AfterClone
    /\ ClosesBuffers
    /\ ~clone.is_recording
    /\ Cardinality(DeschedFds(ClonerFdTasks)) = 2
    /\ Cardinality(FdsOf("close")) = 2
    /\ Cardinality(FdsOf("did_close")) = 4

\* ---------------------------------------------------------- process_ptrace
\* A recorded task (the caller) whose ptrace syscall has just exited, and
\* the tasks of its session; process_ptrace mirrors the request into the
\* tracer's model of the registers.

MaxReflects == 2

\* The caller and its subordinate tracee; ReflNoPid names no task.
ReflCaller == "caller"
ReflTracee == "tracee"
ReflNoPid == "no_task"
ReflTids == {ReflCaller, ReflTracee}
NoReflTask == "none"

\* The values a register and a byte buffer read from the caller can hold.
ReflValues == {0, 7}

PtraceRequests ==
    {"PTRACE_SETREGS", "PTRACE_SETFPREGS", "PTRACE_SETFPXREGS",
     "PTRACE_SETREGSET", "PTRACE_POKEUSER", "PTRACE_ARCH_PRCTL",
     "PTRACE_PEEKUSER"}

\* arg3 of PTRACE_SETREGSET.
RegsetTypes == {"NT_PRSTATUS", "NT_FPREGSET", "NT_X86_XSTATE", "NT_OTHER"}

\* arg3 of PTRACE_POKEUSER: an offset into user_regs_struct, into
\* u_debugreg, or elsewhere in struct user.
PokeOffsets == {"user_regs", "u_debugreg", "elsewhere"}

\* arg4 of PTRACE_ARCH_PRCTL.
ArchPrctlCodes ==
    {"ARCH_GET_FS", "ARCH_GET_GS", "ARCH_SET_FS", "ARCH_SET_GS", "other"}

\* The register model the tracer keeps of a task.
ReflTask(format) ==
    [registers |-> [gp |-> 1, fs_base |-> 1, gs_base |-> 1],
     registers_dirty |-> FALSE,
     extra_registers |-> [format |-> format, fp |-> 1],
     debug_regs |-> 1,
     kernel_calls |-> <<>>]

\* Session::find_task_from_rec_tid.
find_task_from_rec_tid(pid) ==
    IF pid \in ReflTids THEN pid ELSE NoReflTask

\* Task::set_extra_regs.
set_extra_regs(tk, r) ==
    [tk EXCEPT !.extra_registers = r]

\* Task::set_debug_reg.
set_debug_reg(tk, value) ==
    [tk EXCEPT !.debug_regs = value]

\* ExtraRegisters::set_user_fpregs_struct and set_user_fpxregs_struct.
set_user_fpregs_struct(r, data) ==
    [r EXCEPT !.fp = data]

\* ExtraRegisters::set_to_raw_data on a default ExtraRegisters.
set_to_raw_data(data) ==
    [format |-> "XSave", fp |-> data]

\* A request as process_ptrace reads it from the caller's registers and
\* memory: arg1, the pid of arg2, arg3, arg4 and the bytes arg4 points to.
\* iov_ok: the iovec of a SETREGSET is long enough. raw_ok: the bytes of a
\* NT_X86_XSTATE are valid XSAVE data.
PtraceCalls ==
    [request : PtraceRequests, pid : {ReflTracee, ReflNoPid},
     regset : RegsetTypes, offset : PokeOffsets, code : ArchPrctlCodes,
     base : ReflValues, data : ReflValues, iov_ok : BOOLEAN, raw_ok : BOOLEAN]

\* The fields of a call that its request does not read are fixed.
Canonical(c) ==
    /\ c.request # "PTRACE_SETREGSET" =>
          c.regset = "NT_PRSTATUS" /\ c.iov_ok /\ c.raw_ok
    /\ c.regset # "NT_X86_XSTATE" => c.raw_ok
    /\ c.request # "PTRACE_POKEUSER" => c.offset = "user_regs"
    /\ c.request # "PTRACE_ARCH_PRCTL" => c.code = "other" /\ c.base = 0
    /\ c.request \in {"PTRACE_ARCH_PRCTL", "PTRACE_PEEKUSER"} => c.data = 0
    /\ c.request = "PTRACE_SETREGSET" /\ c.regset = "NT_OTHER" => c.data = 0
    /\ c.code \notin {"ARCH_SET_FS", "ARCH_SET_GS"} => c.base = 0

\* Whether the request reaches maybe_tracee.unwrap().
unwraps_tracee(c) ==
    \/ c.request \in {"PTRACE_SETREGS", "PTRACE_POKEUSER"}
    \/ c.request = "PTRACE_SETREGSET" /\ c.regset # "NT_OTHER"
    \/ c.request = "PTRACE_ARCH_PRCTL" /\
          c.code \notin {"ARCH_GET_FS", "ARCH_GET_GS"}

\* The ed_assert!s of process_ptrace and of ptrace_get_regs_set.
process_ptrace_assert_ok(tks, c) ==
    LET tracee == find_task_from_rec_tid(c.pid)
    IN  /\ unwraps_tracee(c) => tracee # NoReflTask
        /\ c.request = "PTRACE_SETREGSET" =>
              /\ c.regset # "NT_OTHER"
              /\ c.regset = "NT_X86_XSTATE" =>
                    tks[tracee].extra_registers.format = "XSave"
              /\ c.iov_ok
              /\ c.raw_ok
        /\ c.request = "PTRACE_ARCH_PRCTL" => c.code # "other"

\* A mutant of fpregs_target: the fp registers of the tracee are set.
fpregs_target_tracee(caller, tracee) ==
    tracee

\* The task whose extra registers PTRACE_SETFPREGS and PTRACE_SETFPXREGS
\* clone and set: `t`, the task that made the syscall.
fpregs_target(caller, tracee) ==
    caller

\* process_ptrace(regs, t) when its assertions hold: the register models of
\* the tasks afterwards.
process_ptrace(tks, t, c) ==
    LET tracee == find_task_from_rec_tid(c.pid)
        fp == fpregs_target(t, tracee)
    IN  CASE c.request = "PTRACE_SETREGS" ->
                [tks EXCEPT ![tracee] =
                    set_regs(@, [@.registers EXCEPT !.gp = c.data])]
          [] c.request \in {"PTRACE_SETFPREGS", "PTRACE_SETFPXREGS"} ->
                IF fp = NoReflTask THEN tks
                ELSE [tks EXCEPT ![fp] =
                        set_extra_regs(@, set_user_fpregs_struct(
                                              @.extra_registers, c.data))]
          [] c.request = "PTRACE_SETREGSET" /\ c.regset = "NT_PRSTATUS" ->
                [tks EXCEPT ![tracee] =
                    set_regs(@, [@.registers EXCEPT !.gp = c.data])]
          [] c.request = "PTRACE_SETREGSET" /\ c.regset = "NT_FPREGSET" ->
                [tks EXCEPT ![tracee] =
                    set_extra_regs(@, set_user_fpregs_struct(
                                          @.extra_registers, c.data))]
          [] c.request = "PTRACE_SETREGSET" /\ c.regset = "NT_X86_XSTATE" ->
                [tks EXCEPT ![tracee] =
                    set_extra_regs(@, set_to_raw_data(c.data))]
          [] c.request = "PTRACE_POKEUSER" /\ c.offset = "user_regs" ->
                [tks EXCEPT ![tracee] =
                    set_regs(@, [@.registers EXCEPT !.gp = c.data])]
          [] c.request = "PTRACE_POKEUSER" /\ c.offset = "u_debugreg" ->
                [tks EXCEPT ![tracee] = set_debug_reg(@, c.data)]
          [] c.request = "PTRACE_ARCH_PRCTL" /\
                c.code \in {"ARCH_SET_FS", "ARCH_SET_GS"} ->
                LET r == tks[tracee].registers
                    r1 == IF c.code = "ARCH_SET_FS"
                          THEN [r EXCEPT !.fs_base = c.base]
                          ELSE [r EXCEPT !.gs_base = c.base]
                    k == IF c.base = 0
                         THEN <<[request |-> "PTRACE_ARCH_PRCTL",
                                 addr |-> c.base, data |-> c.code]>>
                         ELSE <<>>
                IN  [tks EXCEPT ![tracee] =
                        set_regs([@ EXCEPT !.kernel_calls = @ \o k], r1)]
          [] OTHER -> tks

\* ---- actions of SpecRefl

ProcessPtrace(c) ==
    /\ ~aborted
    /\ refl.pc = "live"
    /\ refl.n < MaxReflects
    /\ Canonical(c)
    /\ IF process_ptrace_assert_ok(refl.tk, c)
       THEN /\ refl' = [refl EXCEPT !.tk = process_ptrace(refl.tk, ReflCaller, c),
                                    !.pre = refl.tk,
                                    !.call = c,
                                    !.n = @ + 1]
            /\ aborted' = FALSE
            /\ last_op' = [op |-> "process_ptrace", tid |-> 1]
       ELSE /\ refl' = [refl EXCEPT !.pre = refl.tk, !.call = c]
            /\ aborted' = TRUE
            /\ last_op' = [op |-> "process_ptrace_abort", tid |-> 1]
    /\ UNCHANGED notRefl

NoPtraceCall ==
    [request |-> "PTRACE_PEEKUSER", pid |-> ReflTracee,
     regset |-> "NT_PRSTATUS", offset |-> "user_regs", code |-> "other",
     base |-> 0, data |-> 0, iov_ok |-> TRUE, raw_ok |-> TRUE]

InitRefl ==
    /\ \E format \in {"XSave", "None"} :
          LET tk == [t \in ReflTids |->
                        ReflTask(IF t = ReflTracee THEN format ELSE "XSave")]
          IN  refl = [pc |-> "live", tk |-> tk, pre |-> tk,
                      call |-> NoPtraceCall, n |-> 0]
    /\ tasks = [t \in Tids |-> InitTask(51, TRUE, FALSE, 1, 1)]
    /\ kern = [t \in Tids |-> InitKern(51, TRUE)]
    /\ sess = [task_map |-> {1}, vm_map |-> {1}, thread_group_map |-> {1},
               is_recording |-> TRUE]
    /\ aborted = FALSE
    /\ last_op = NoOp
    /\ hist = [t \in Tids |-> InitHist]
    /\ kill = IdleKill
    /\ mem = IdleMem
    /\ trap = IdleTrap
    /\ step = IdleStep
    /\ exec = IdleExec
    /\ cstr = IdleCStr
    /\ drop = IdleDrop
    /\ clone = IdleClone
    /\ intr = IdleIntr

NextRefl ==
    \E c \in PtraceCalls : ProcessPtrace(c)

SpecRefl == InitRefl /\ [][NextRefl]_vars

\* ------------------------------------------- properties of process_ptrace

Reflected ==
    last_op.op = "process_ptrace"

HandledRequest(c) ==
    \/ c.request \in {"PTRACE_SETREGS", "PTRACE_SETFPREGS",
                      "PTRACE_SETFPXREGS", "PTRACE_SETREGSET",
                      "PTRACE_POKEUSER"}
    \/ c.request = "PTRACE_ARCH_PRCTL" /\
          c.code \in {"ARCH_SET_FS", "ARCH_SET_GS"}

\* C32: for every ptrace request that the reflection handles, process_ptrace
\* changes only the register model (general-purpose, extra or debug
\* registers) of the subordinate tracee named by the syscall's pid argument;
\* the calling task's own cached registers and extra registers are left
\* unchanged.
C32_ReflectsIntoTraceeOnly ==
    Reflected /\ HandledRequest(refl.call) =>
        \A t \in ReflTids \ {find_task_from_rec_tid(refl.call.pid)} :
            refl.tk[t] = refl.pre[t]

\* What holds of the code: every handled request other than PTRACE_SETFPREGS
\* and PTRACE_SETFPXREGS changes only the register model of the tracee named
\* by pid; those two change the extra registers of the calling task and
\* nothing of the tracee.
ReflectsIntoTraceeButFpregs ==
    Reflected /\ HandledRequest(refl.call) =>
        IF refl.call.request \in {"PTRACE_SETFPREGS", "PTRACE_SETFPXREGS"}
        THEN /\ refl.tk[ReflTracee] = refl.pre[ReflTracee]
             /\ refl.tk[ReflCaller] =
                   [refl.pre[ReflCaller] EXCEPT
                       !.extra_registers.fp = refl.call.data]
        ELSE /\ find_task_from_rec_tid(refl.call.pid) = ReflTracee
             /\ refl.tk[ReflCaller] = refl.pre[ReflCaller]

\* The case of C32 that fails: a PTRACE_SETFPREGS on the tracee changed the
\* extra registers of the caller.
ReflectedIntoCaller ==
    /\ Reflected
    /\ refl.call.request = "PTRACE_SETFPREGS"
    /\ refl.call.pid = ReflTracee
    /\ refl.tk[ReflCaller].extra_registers # refl.pre[ReflCaller].extra_registers
    /\ refl.tk[ReflTracee] = refl.pre[ReflTracee]

\* ------------------------------------------- PTRACE_INTERRUPT accounting
\* One task resumed, interrupted with PTRACE_INTERRUPT and stopped, with the
\* counter expecting_ptrace_interrupt_stop, the pending siginfo and the
\* scheduler's timeslice.

\* Number of did_waitpid calls and of PTRACE_INTERRUPTs on the task.
MaxIntrStops == 3
MaxInterrupts == 2

WaitStatus(kind, sig) ==
    [kind |-> kind, sig |-> sig]

\* WaitStatus::for_stop_sig and WaitStatus::for_ptrace_event(PTRACE_EVENT_EXIT).
for_stop_sig(sig) ==
    WaitStatus("stop_sig", sig)

for_ptrace_event_exit ==
    WaitStatus("exit_event", "none")

\* The stops waitpid reports: signal-delivery stops, group stops, a syscall
\* stop and PTRACE_EVENT_EXIT.
IntrWaitStatuses ==
    {for_stop_sig("SIGUSR1"), for_stop_sig("TIME_SLICE_SIGNAL"),
     WaitStatus("group_stop", "SIGTRAP"), WaitStatus("group_stop", "SIGSTOP"),
     WaitStatus("group_stop", "SIGTSTP"),
     WaitStatus("syscall_stop", "none"), for_ptrace_event_exit}

maybe_group_stop_sig(status) ==
    IF status.kind = "group_stop" THEN status.sig ELSE "none"

maybe_stop_sig_is_sig(status) ==
    status.kind = "stop_sig"

\* is_signal_triggered_by_ptrace_interrupt: SIGTRAP, and SIGSTOP, which is
\* also seen at interrupts.
is_signal_triggered_by_ptrace_interrupt(sig) ==
    sig \in {"SIGTRAP", "SIGSTOP"}

\* siginfo_t::default().
default_siginfo ==
    [si_signo |-> "none", si_code |-> "none", si_fd |-> 0]

\* What PTRACE_GETSIGINFO writes for a signal-delivery stop.
kernel_siginfo(status) ==
    [si_signo |-> status.sig, si_code |-> "SI_USER", si_fd |-> 0]

\* The siginfo did_waitpid makes up for a PTRACE_INTERRUPT group stop.
time_slice_siginfo(tk) ==
    [si_signo |-> "TIME_SLICE_SIGNAL", si_code |-> "POLL_IN",
     si_fd |-> tk.ticks_interrupt_fd]

IntrTask ==
    [is_stopped |-> TRUE,
     registers_dirty |-> FALSE,
     registers |-> InitTask(51, TRUE, FALSE, 1, 1).registers,
     wait_status |-> for_stop_sig("SIGUSR1"),
     seen_ptrace_exit_event |-> FALSE,
     expecting_ptrace_interrupt_stop |-> 0,
     pending_siginfo |-> default_siginfo,
     ticks_interrupt_fd |-> 9]

\* A mutant of lower_expecting: the counter is never lowered.
lower_expecting_never(n) ==
    n

\* expecting_ptrace_interrupt_stop -= 1.
lower_expecting(n) ==
    n - 1

\* A mutant of interrupt_stop_hit: any group stop of an interrupt's signal
\* is taken for one, whatever the counter.
interrupt_stop_hit_any_counter(tk, status) ==
    is_signal_triggered_by_ptrace_interrupt(maybe_group_stop_sig(status))

\* Whether did_waitpid takes the stop for the group stop of a
\* PTRACE_INTERRUPT.
interrupt_stop_hit(tk, status) ==
    /\ tk.expecting_ptrace_interrupt_stop > 0
    /\ is_signal_triggered_by_ptrace_interrupt(maybe_group_stop_sig(status))

\* A mutant of expires_timeslice: the timeslice is expired when replaying too.
expires_timeslice_always(is_recording) ==
    TRUE

\* Scheduler::expire_timeslice is called only on a recording session.
expires_timeslice(is_recording) ==
    is_recording

\* The first block of did_waitpid: the counter, the status and the siginfo.
interrupt_accounting(tk, status, is_recording) ==
    LET hit == interrupt_stop_hit(tk, status)
        tk1 == IF tk.expecting_ptrace_interrupt_stop > 0
               THEN [tk EXCEPT !.expecting_ptrace_interrupt_stop =
                                   lower_expecting(@)]
               ELSE tk
        tk2 == IF hit
               THEN [tk1 EXCEPT !.pending_siginfo = time_slice_siginfo(tk1),
                                !.expecting_ptrace_interrupt_stop = 0]
               ELSE tk1
    IN  [task |-> tk2,
         status |-> IF hit THEN for_stop_sig("TIME_SLICE_SIGNAL") ELSE status,
         siginfo_overriden |-> hit,
         expired |-> hit /\ expires_timeslice(is_recording)]

\* did_waitpid(task, status) from its first line to the publication of the
\* stop and the fixup of the singlestep flag. alive_siginfo / alive_regs:
\* whether the tracee still exists when PTRACE_GETSIGINFO / PTRACE_GETREGS
\* is issued.
did_waitpid_interrupt(tk, kregs, status, alive_siginfo, alive_regs, is_recording) ==
    LET a == interrupt_accounting(tk, status, is_recording)
        getsiginfo == ~a.siginfo_overriden /\ maybe_stop_sig_is_sig(a.status)
        st1 == IF getsiginfo /\ ~alive_siginfo
               THEN for_ptrace_event_exit ELSE a.status
        tk1 == IF getsiginfo
               THEN [a.task EXCEPT !.pending_siginfo =
                        IF alive_siginfo THEN kernel_siginfo(a.status)
                        ELSE default_siginfo]
               ELSE a.task
        assert_ok == st1 # for_ptrace_event_exit => ~tk1.registers_dirty
        getregs == IF tk1.is_stopped THEN "skipped"
                   ELSE IF alive_regs THEN "ok" ELSE "failed"
        tk2 == IF getregs = "ok"
               THEN [tk1 EXCEPT !.registers = refresh_registers(@, kregs)]
               ELSE tk1
        st2 == IF getregs = "failed" THEN for_ptrace_event_exit ELSE st1
        tk3 == publish_stop(tk2, st2)
        tk4 == IF st2 = for_ptrace_event_exit
               THEN [tk3 EXCEPT !.seen_ptrace_exit_event = TRUE]
               ELSE post_stop_fixups(tk3)
    IN  [task |-> IF assert_ok THEN tk4 ELSE tk1,
         abort |-> ~assert_ok,
         getsiginfo |-> getsiginfo,
         getregs |-> IF assert_ok THEN getregs ELSE "none",
         expired |-> a.expired]

\* ---- actions of SpecIntr

NoIntrStop ==
    [status |-> for_stop_sig("SIGUSR1"), expecting |-> 0,
     getsiginfo |-> FALSE, getregs |-> "none", expired |-> FALSE,
     siginfo |-> default_siginfo]

\* The task is resumed: the registers are flushed and it runs.
IntrResume ==
    /\ ~aborted
    /\ intr.pc = "live"
    /\ intr.task.is_stopped
    /\ ~intr.task.seen_ptrace_exit_event
    /\ intr.stops < MaxIntrStops
    /\ intr' = [intr EXCEPT !.task = resume_mark_running(resume_flush(@)),
                            !.last = NoIntrStop]
    /\ last_op' = [op |-> "resume_execution", tid |-> 1]
    /\ UNCHANGED <<aborted, notIntr>>

\* PTRACE_INTERRUPT is issued on the running task: from now on the next two
\* stops can be the group stop it causes.
IntrPtraceInterrupt ==
    /\ ~aborted
    /\ intr.pc = "live"
    /\ ~intr.task.is_stopped
    /\ intr.interrupts < MaxInterrupts
    /\ intr' = [intr EXCEPT !.task.expecting_ptrace_interrupt_stop = 2,
                            !.interrupts = @ + 1,
                            !.examined = 0]
    /\ last_op' = [op |-> "ptrace_interrupt", tid |-> 1]
    /\ UNCHANGED <<aborted, notIntr>>

\* waitpid reported a stop of the running task.
IntrDidWaitpid(status, die) ==
    /\ ~aborted
    /\ intr.pc = "live"
    /\ ~intr.task.is_stopped
    /\ LET r == did_waitpid_interrupt(intr.task, intr.kregs, status,
                                      die # "before_getsiginfo", die = "no",
                                      intr.is_recording)
       IN  /\ intr' = [intr EXCEPT
                  !.task = r.task,
                  !.stops = @ + 1,
                  !.examined =
                      IF intr.task.expecting_ptrace_interrupt_stop > 0
                      THEN @ + 1 ELSE @,
                  !.expired_timeslices = IF r.expired THEN @ + 1 ELSE @,
                  !.last = [status |-> status,
                            expecting |->
                                intr.task.expecting_ptrace_interrupt_stop,
                            getsiginfo |-> r.getsiginfo,
                            getregs |-> r.getregs,
                            expired |-> r.expired,
                            siginfo |-> intr.task.pending_siginfo]]
           /\ aborted' = r.abort
           /\ last_op' = [op |-> IF r.abort THEN "did_waitpid_abort"
                                 ELSE "did_waitpid", tid |-> 1]
    /\ UNCHANGED notIntr

InitIntr ==
    /\ \E is_recording \in BOOLEAN, tf \in BOOLEAN :
          intr = [pc |-> "live", task |-> IntrTask,
                  kregs |-> [InitKern(51, TRUE).regs EXCEPT !.tf = tf],
                  is_recording |-> is_recording,
                  stops |-> 0, interrupts |-> 0, examined |-> 0,
                  expired_timeslices |-> 0, last |-> NoIntrStop]
    /\ tasks = [t \in Tids |-> InitTask(51, TRUE, FALSE, 1, 1)]
    /\ kern = [t \in Tids |-> InitKern(51, TRUE)]
    /\ sess = [task_map |-> {1}, vm_map |-> {1}, thread_group_map |-> {1},
               is_recording |-> TRUE]
    /\ aborted = FALSE
    /\ last_op = NoOp
    /\ hist = [t \in Tids |-> InitHist]
    /\ kill = IdleKill
    /\ mem = IdleMem
    /\ trap = IdleTrap
    /\ step = IdleStep
    /\ exec = IdleExec
    /\ cstr = IdleCStr
    /\ drop = IdleDrop
    /\ clone = IdleClone
    /\ refl = IdleRefl

NextIntr ==
    \/ IntrResume
    \/ IntrPtraceInterrupt
    \/ \E status \in IntrWaitStatuses, die \in Vanish :
          IntrDidWaitpid(status, die)

SpecIntr == InitIntr /\ [][NextIntr]_vars

\* --------------------------- properties of the PTRACE_INTERRUPT accounting

AfterIntrDidWaitpid ==
    last_op.op = "did_waitpid" /\ intr.pc = "live"

IntrGroupStop(status) ==
    is_signal_triggered_by_ptrace_interrupt(maybe_group_stop_sig(status))

\* C33: expecting_ptrace_interrupt_stop stays in {0, 1, 2}: each did_waitpid
\* lowers it by exactly one when it is positive and the stop is not an
\* interrupt-induced group stop, sets it to 0 when the stop is one, and
\* leaves it at 0 when it is 0; so after the counter was set to 2 at most two
\* stops are examined as candidate interrupt stops.
C33_InterruptCounterBounded ==
    /\ intr.task.expecting_ptrace_interrupt_stop \in {0, 1, 2}
    /\ intr.examined <= 2
    /\ AfterIntrDidWaitpid =>
          intr.task.expecting_ptrace_interrupt_stop =
              IF intr.last.expecting = 0 THEN 0
              ELSE IF IntrGroupStop(intr.last.status) THEN 0
              ELSE intr.last.expecting - 1

\* C33 happens: after a PTRACE_INTERRUPT two stops that were not its group
\* stop have been examined and the counter is back at 0.
C33_Witness ==
    /\ AfterIntrDidWaitpid
    /\ intr.examined = 2
    /\ intr.last.expecting = 1
    /\ ~IntrGroupStop(intr.last.status)
    /\ intr.task.expecting_ptrace_interrupt_stop = 0

\* What C34 says of the siginfo, of PTRACE_GETSIGINFO and of the timeslice
\* after did_waitpid examined a group stop that PTRACE_INTERRUPT can cause.
InterruptStopSynthesized ==
    /\ intr.task.pending_siginfo = time_slice_siginfo(intr.task)
    /\ intr.task.pending_siginfo.si_fd = 9
    /\ ~intr.last.getsiginfo
    /\ intr.last.expired <=> intr.is_recording
    /\ intr.expired_timeslices > 0 => intr.is_recording

GroupStopLeftAlone ==
    /\ intr.task.pending_siginfo = intr.last.siginfo
    /\ ~intr.last.getsiginfo
    /\ ~intr.last.expired

\* C34 as stated: a group stop caused by PTRACE_INTERRUPT is reported as a
\* TIME_SLICE_SIGNAL stop iff expecting_ptrace_interrupt_stop was positive
\* on entry: then wait_status is the stop-signal status for
\* TIME_SLICE_SIGNAL, pending_siginfo is {TIME_SLICE_SIGNAL, POLL_IN,
\* ticks_interrupt_fd}, PTRACE_GETSIGINFO is not issued and the timeslice is
\* expired only when recording; with the counter at 0 the group stop is
\* published unchanged.
C34_InterruptStopBecomesTimeSlice ==
    AfterIntrDidWaitpid /\ IntrGroupStop(intr.last.status) =>
        IF intr.last.expecting > 0
        THEN /\ intr.task.wait_status = for_stop_sig("TIME_SLICE_SIGNAL")
             /\ InterruptStopSynthesized
        ELSE /\ intr.task.wait_status = intr.last.status
             /\ GroupStopLeftAlone

\* C34, amended: the same, but the published wait_status is the
\* TIME_SLICE_SIGNAL stop (counter positive) or the unchanged group stop
\* (counter 0) only when PTRACE_GETREGS found the tracee; when the tracee
\* has vanished by then the published wait_status is PtraceEvent(EXIT), the
\* siginfo, PTRACE_GETSIGINFO and the timeslice being as stated.
C34_InterruptStopBecomesTimeSliceIfAlive ==
    AfterIntrDidWaitpid /\ IntrGroupStop(intr.last.status) =>
        /\ intr.task.wait_status =
              IF intr.last.getregs = "failed" THEN for_ptrace_event_exit
              ELSE IF intr.last.expecting > 0
              THEN for_stop_sig("TIME_SLICE_SIGNAL")
              ELSE intr.last.status
        /\ IF intr.last.expecting > 0
           THEN InterruptStopSynthesized
           ELSE GroupStopLeftAlone

\* C34 happens: while recording, a SIGSTOP group stop was examined with the
\* counter positive and published as a TIME_SLICE_SIGNAL stop, and the
\* timeslice was expired.
C34_Witness ==
    /\ AfterIntrDidWaitpid
    /\ intr.last.status = WaitStatus("group_stop", "SIGSTOP")
    /\ intr.last.expecting > 0
    /\ intr.last.getregs = "ok"
    /\ intr.is_recording
    /\ intr.last.expired
    /\ intr.task.wait_status = for_stop_sig("TIME_SLICE_SIGNAL")
    /\ intr.task.pending_siginfo.si_code = "POLL_IN"

\* C34 happens with the counter at 0: the group stop is published as it is.
C34_WitnessCounterZero ==
    /\ AfterIntrDidWaitpid
    /\ intr.interrupts > 0
    /\ intr.last.status = WaitStatus("group_stop", "SIGTRAP")
    /\ intr.last.expecting = 0
    /\ intr.task.wait_status = intr.last.status

\* C34 happens on a replaying session: no timeslice is expired.
C34_WitnessReplay ==
    /\ AfterIntrDidWaitpid
    /\ IntrGroupStop(intr.last.status)
    /\ intr.last.expecting > 0
    /\ ~intr.is_recording
    /\ ~intr.last.expired
    /\ intr.task.wait_status = for_stop_sig("TIME_SLICE_SIGNAL")

\* ------------------------------------------ did_waitpid on a vanished tracee

\* The cached registers as resume_execution left them.
RegsAtResume ==
    [ip |-> step.address_of_last_execution_resume,
     cx |-> step.at_resume.flushed_cx]

\* C35: in did_waitpid, when PTRACE_GETSIGINFO or PTRACE_GETREGS fails
\* because the tracee has vanished, the published wait_status is
\* PtraceEvent(EXIT), seen_ptrace_exit_event becomes true, is_stopped becomes
\* true, and none of the post-stop fixups run: no register is edited,
\* registers_dirty is not set and no memory is written.
C35_VanishedTraceePublishedAsExit ==
    last_op.op = "did_waitpid" /\ step.vanished =>
        /\ ~aborted
        /\ step.stop.kind = "exit"
        /\ step.seen_ptrace_exit_event
        /\ step.is_stopped
        /\ step.regs = RegsAtResume
        /\ ~step.registers_dirty
        /\ ~step.stack_write.done

\* C35 happens: the tracee vanished after a singlestep through a pushf that
\* had pushed an EFLAGS image with TF set, which the fixup would have edited.
C35_Witness ==
    /\ last_op.op = "did_waitpid"
    /\ step.vanished
    /\ step.at_resume.insn = "Pushf"
    /\ step.k.ip = step.address_of_last_execution_resume + 1
    /\ step.stack_word = 258
    /\ step.stop.kind = "exit"
    /\ step.seen_ptrace_exit_event

\* C35 happens with the KNL fudge outstanding: rcx is not restored.
C35_WitnessFudged ==
    /\ last_op.op = "did_waitpid"
    /\ step.vanished
    /\ step.last_resume_orig_cx # 0
    /\ step.regs.cx = single_step_coalesce_cutoff

\* ----------------------------------- the breakpoint after CPUID and the stop

\* The fixup state of the singlestep workarounds is clear.
StepStateCleared ==
    /\ BkptAfterCpuid \notin step.bkpts
    /\ step.bkpts = {}
    /\ ~step.did_set_breakpoint_after_cpuid
    /\ step.singlestepping_instruction = "None"
    /\ step.last_resume_orig_cx = 0

\* The fixup state is as resume_execution left it.
StepStateKept ==
    /\ step.did_set_breakpoint_after_cpuid = SteppedAt({"CpuId"})
    /\ SteppedAt({"CpuId"}) => BkptAfterCpuid \in step.bkpts
    /\ step.singlestepping_instruction =
          IF is_singlestep_resume(step.how_last_execution_resumed)
          THEN step.at_resume.insn ELSE "None"
    /\ step.last_resume_orig_cx # 0 <=> Fudged

\* C39 as stated: an internal post-CPUID breakpoint installed by
\* resume_execution never outlives the stop that follows it: after the next
\* did_waitpid on that task, whatever the stop status (PTRACE_EVENT_EXIT and
\* a vanished tracee included), the breakpoint has been removed and
\* did_set_breakpoint_after_cpuid is false; likewise
\* singlestepping_instruction is None and last_resume_orig_cx is 0.
C39_BreakpointNeverOutlivesStop ==
    last_op.op = "did_waitpid" /\ ~aborted => StepStateCleared

\* C39, amended: after the next did_waitpid whose published status is not
\* PTRACE_EVENT_EXIT, the breakpoint has been removed,
\* did_set_breakpoint_after_cpuid is false, singlestepping_instruction is
\* None and last_resume_orig_cx is 0; when the status is PTRACE_EVENT_EXIT
\* or the tracee has vanished, did_waitpid leaves the breakpoint installed
\* and the three fields as resume_execution set them.
C39_BreakpointRemovedUnlessExit ==
    last_op.op = "did_waitpid" /\ ~aborted =>
        IF step.stop.kind = "exit" THEN StepStateKept ELSE StepStateCleared

\* C39 happens: a singlestep over CPUID installed the breakpoint and the
\* stop that followed was not an exit; the breakpoint is gone.
C39_Witness ==
    /\ last_op.op = "did_waitpid" /\ ~aborted
    /\ SteppedAt({"CpuId"})
    /\ step.stop.kind = "SIGTRAP"
    /\ StepStateCleared

\* C39 fails: the tracee exited after a singlestep over CPUID and the
\* breakpoint is still installed.
C39_WitnessExit ==
    /\ last_op.op = "did_waitpid" /\ ~aborted
    /\ SteppedAt({"CpuId"})
    /\ step.stop.kind = "exit"
    /\ BkptAfterCpuid \in step.bkpts
    /\ step.did_set_breakpoint_after_cpuid

\* ------------------------------------------- the mappings safe_pwrite64 fixes

\* The write_bytes went through safe_pwrite64.
SafePwriteCalled ==
    AfterWrite /\ (mem.last.path = "mem_fd" \/ mem.last.reopens > 0)

\* The mappings that intersect the range of the write.
InWriteRange ==
    {p \in Pages : is_mapped(mem, p) /\ p \in range(mem.last.a, mem.last.n)}

\* C36 as stated: safe_pwrite64 temporarily adds PROT_WRITE to every mapping
\* intersecting the range that lacks PROT_WRITE or that is PROT_READ and
\* MAP_SHARED, and to no other mapping; in particular every non-writable
\* mapping in the range, a private read-only one included, is elevated.
C36_ElevatesEveryUnwritable ==
    SafePwriteCalled =>
        mem.last.fixed =
            {p \in InWriteRange :
                \/ "w" \notin prot_of(mem.am[p])
                \/ "r" \in prot_of(mem.am[p]) /\ is_shared(mem.am[p])}

\* C36, amended: safe_pwrite64 temporarily adds PROT_WRITE to every mapping
\* intersecting the range that lacks PROT_WRITE and that either lacks
\* PROT_READ or is MAP_SHARED, and to no other mapping; a private mapping
\* that is readable but not writable is not elevated.
C36_ElevatesUnreadableOrShared ==
    SafePwriteCalled =>
        /\ mem.last.fixed =
              {p \in InWriteRange :
                  /\ "w" \notin prot_of(mem.am[p])
                  /\ "r" \notin prot_of(mem.am[p]) \/ is_shared(mem.am[p])}
        /\ \A p \in InWriteRange :
              mem.am[p] = "r_private" => p \notin mem.last.fixed

\* C36 happens: a write through the mem fd over a private read-only page
\* and a PROT_NONE page elevated the second and not the first.
C36_Witness ==
    /\ SafePwriteCalled
    /\ mem.last.n = 2
    /\ mem.last.a + 1 \in Pages
    /\ mem.am[mem.last.a] = "r_private"
    /\ mem.am[mem.last.a + 1] = "none"
    /\ mem.last.fixed = {mem.last.a + 1}

\* C36 happens on a read-only MAP_SHARED page and a writable page.
C36_WitnessShared ==
    /\ SafePwriteCalled
    /\ mem.last.n = 2
    /\ mem.last.a + 1 \in Pages
    /\ mem.am[mem.last.a] = "r_shared"
    /\ mem.am[mem.last.a + 1] = "rw"
    /\ mem.last.fixed = {mem.last.a}

\* ---------------------------------------------- the stale-mem-fd recovery

\* A read or a write that found the mem fd open: neither empty nor served
\* by a local mapping.
UsedMemFd ==
    /\ AfterRead \/ AfterWrite
    /\ mem.last.n > 0
    /\ mem.last.path # "local"
    /\ mem.last.fd_before # "closed"

TrapExamined ==
    trap.pc = "classified"

IpAtBreakpoint ==
    trap.in.ip - 1

BkptInsnAt(p) ==
    IF p = trap.in.addr_last_execution_resume
    THEN trap.in.insn_at_resume = "int3"
    ELSE p = IpAtBreakpoint /\ trap.in.bkpt_insn_before_ip

\* C38: compute_trap_reasons sets breakpoint as follows: if singlestep is
\* true, breakpoint is true iff the resume address holds a breakpoint
\* instruction (and then the resume address must equal ip - bkpt_len, else
\* fatal assertion); else if watchpoint is true, breakpoint is true iff an
\* EXEC watchpoint fired at ip - bkpt_len and that address holds a
\* breakpoint instruction; else breakpoint is true iff siginfo.si_code is a
\* kernel trap, and in that case ip - bkpt_len must hold a breakpoint
\* instruction (else fatal assertion).
C38_BreakpointReason ==
    TrapExamined =>
        LET i == trap.in
            r == trap.reasons
            resume == i.addr_last_execution_resume
        IN  IF r.singlestep
            THEN /\ r.breakpoint <=> BkptInsnAt(resume)
                 /\ aborted <=> (r.breakpoint /\ resume # IpAtBreakpoint)
            ELSE IF r.watchpoint
            THEN /\ r.breakpoint <=>
                       (i.exec_watchpoint_fired /\ BkptInsnAt(IpAtBreakpoint))
                 /\ ~aborted
            ELSE /\ r.breakpoint <=> i.si_code_kernel_trap
                 /\ aborted <=> (r.breakpoint /\ ~BkptInsnAt(IpAtBreakpoint))

\* C38 happens: neither singlestep nor watchpoint, the siginfo reports a
\* kernel trap and a breakpoint instruction lies before ip.
C38_Witness ==
    /\ TrapExamined /\ ~aborted
    /\ ~trap.reasons.singlestep /\ ~trap.reasons.watchpoint
    /\ trap.in.si_code_kernel_trap
    /\ trap.in.bkpt_insn_before_ip
    /\ trap.reasons.breakpoint

\* C38 happens: the siginfo reports a kernel trap and no breakpoint
\* instruction lies before ip; the assertion fails.
C38_WitnessAssertion ==
    /\ TrapExamined /\ aborted
    /\ ~trap.reasons.singlestep /\ ~trap.reasons.watchpoint
    /\ trap.in.si_code_kernel_trap
    /\ ~BkptInsnAt(IpAtBreakpoint)

\* C38 happens: a singlestep from a breakpoint instruction.
C38_WitnessSinglestep ==
    /\ TrapExamined /\ ~aborted
    /\ trap.reasons.singlestep
    /\ trap.in.insn_at_resume = "int3"
    /\ trap.reasons.breakpoint

\* C38 happens: an exec watchpoint fired at a breakpoint instruction.
C38_WitnessWatchpoint ==
    /\ TrapExamined /\ ~aborted
    /\ ~trap.reasons.singlestep /\ trap.reasons.watchpoint
    /\ trap.in.exec_watchpoint_fired
    /\ trap.reasons.breakpoint

\* ------------------------------- the destructors of phase 2 (kill_all_tasks)

\* C40: every Task released by phase 2 of kill_all_tasks is unstable at the
\* moment its destructor runs (it was unstable already, or its thread group
\* was destabilized right after the tgkill), so its destructor takes the
\* unstable path: it never reaches the waitpid nor the assertions on
\* seen_ptrace_exit_event and syscallbuf_child of the stable path.
C40_ReleasedTasksAreUnstable ==
    /\ \A t \in Popped :
          /\ tasks[t].unstable
          /\ kill.drop_path[t] = "unstable"
          /\ t \in kill.found_unstable \/ t \in kill.tgkilled
    /\ \A t \in Tids \ Popped : kill.drop_path[t] = "none"
    /\ last_op.op = "kill_pop" => ~aborted

\* C40 happens: phase 2 released a task that was not unstable when shutdown
\* began and whose exit event had not been seen, and a task that was
\* unstable from the start; both destructors took the unstable path.
C40_Witness ==
    /\ last_op.op = "kill_pop" /\ ~aborted
    /\ \E t, u \in Popped :
          /\ t \notin kill.start.unstable
          /\ t \in kill.tgkilled
          /\ ~tasks[t].seen_ptrace_exit_event
          /\ kill.drop_path[t] = "unstable"
          /\ u \in kill.start.unstable
          /\ ~SameThreadGroup(t, u)
          /\ kill.drop_path[u] = "unstable"

====
